---------------------------- MODULE Spec2Model ----------------------------
(***************************************************************************)
(* Model of visualize_network.py: the layout engine that sizes and places  *)
(* the resources of a virtual network and bundles the connector routes.    *)
(*                                                                         *)
(* The specifications share the variables:                                 *)
(*   SpecRG        one RouteGroup and its get_next_route calls             *)
(*   SpecRoutes    one RouteTableResource: add_route and sort_routes       *)
(*   SpecCols      the column loop of visualize_vpc over the ACLs          *)
(*   SpecSizing    the resource tree and get_dimensions calls on it        *)
(*   Spec          the resource tree and the layout pass of visualize_vpc  *)
(*   SpecAlign     the layout pass over two subnets and their ACLs         *)
(*   SpecZones     the layout pass over zones of at most two subnets       *)
(*   SpecBends     the layout pass over many subnets of one ACL            *)
(*   SpecLists     the layout pass over ACLs with rules and route tables   *)
(*   SpecRtSort    the route tables read and sort_rt_resources             *)
(*   SpecAcl       one NAclResource: add_rule and the rows of its list     *)
(*   SpecFlowLogs  the flow logs and the ids of the cells drawn for them   *)
(*   SpecLinks     the edges drawn for route tables and the endpoint       *)
(* Python 2 semantics: / on integers is floor division.                    *)
(***************************************************************************)
EXTENDS Integers, Sequences, FiniteSets, TLC

VARIABLES
    \* ---- RouteGroup (SpecRG)
    rg,             \* the generator's fields
    rg_args,        \* the constructor's arguments, as given
    rg_calls,       \* one record per get_next_route call, in call order
    \* ---- RouteTableResource routes (SpecRoutes)
    routes,         \* self.routes, in add_route order
    sorted_routes,  \* what the last sort_routes call returned, if one was made
    \* ---- the resource tree and the layout pass (Spec, SpecSizing, SpecCols)
    pc,             \* how far visualize_vpc has come
    sub_cols,       \* SUBNET_ALIGNMENT_COLS (args.sub_cols)
    omit,           \* OMIT_NON_ASSOCIATED_RESOURCES (not args.all_resources)
    az_list,        \* the AZResource objects: subnets and width_override
    nacl_association_data,  \* (subnet, nacl) pairs in the order they were read
    nacl_list,      \* the NAclResource objects kept: col_suggestion, x, number of rules
    rt_list,        \* the RouteTableResource objects kept: number of routes
    n_external,     \* peerings, gateways and endpoints drawn beside the network
    col_loop,       \* the locals i and div of the column loop
    frame,          \* the locals of VpcResource.render_xml between its steps
    cells,          \* the vertex cells emitted so far, in document order
    dims_call,      \* the last get_dimensions call made from outside the pass
    rt_az_connections,  \* per route table read: its az_connections list
    rt_sort,        \* the last sort_rt_resources call on those tables
    rules_egress,   \* one NAclResource: its egress rules in the order added
    rules_ingress,  \* and its ingress rules
    nacl_rows,      \* the rows of the side list its render_xml drew
    flow_logs,      \* the FlowLogsResource objects read: id and name
    fl_loop,        \* the locals of the loop that draws them
    doc_ids,        \* the ids of the cells that loop emitted, in document order
    wiring,         \* what was read about route tables, their routes and the endpoint
    link_doc        \* the cells and edges drawn for them, and how far the drawing is

rgVars == <<rg, rg_args, rg_calls>>
rtVars == <<routes, sorted_routes>>
treeVars == <<sub_cols, omit, az_list, nacl_association_data, nacl_list, rt_list, n_external>>
passVars == <<pc, col_loop, frame, cells, dims_call>>
layoutVars == <<pc, sub_cols, omit, az_list, nacl_association_data, nacl_list, rt_list,
                n_external, col_loop, frame, cells, dims_call>>
rtSortVars == <<rt_az_connections, rt_sort>>
aclVars == <<rules_egress, rules_ingress, nacl_rows>>
flowVars == <<flow_logs, fl_loop, doc_ids>>
linkVars == <<wiring, link_doc>>
sideVars == <<rtSortVars, aclVars, flowVars, linkVars>>
vars == <<rg, rg_args, rg_calls, routes, sorted_routes,
          pc, sub_cols, omit, az_list, nacl_association_data, nacl_list, rt_list,
          n_external, col_loop, frame, cells, dims_call, sideVars>>

NONE == "none"
NotSorted == [called |-> FALSE, result |-> <<>>]
NoFrame == [step |-> "none"]
NoCall == [made |-> FALSE]
NoLoop == [i |-> 0, div |-> 0]
NoRtSort == [called |-> FALSE]
NotRendered == [called |-> FALSE, rows |-> <<>>]
NoFlLoop == [i |-> 0, fl_x |-> 0]
NoLinkDoc == [step |-> "off"]

\* The parts of the state a specification does not use.
NoRouteGroup == rg = NONE /\ rg_args = NONE /\ rg_calls = <<>>
NoRouteTable == routes = <<>> /\ sorted_routes = NotSorted
NoRouteTableSort == rt_az_connections = <<>> /\ rt_sort = NoRtSort
NoAcl == rules_egress = <<>> /\ rules_ingress = <<>> /\ nacl_rows = NotRendered
NoFlowLogs == flow_logs = <<>> /\ fl_loop = NoFlLoop /\ doc_ids = <<>>
NoLinks == wiring = NONE /\ link_doc = NoLinkDoc
NoSide == NoRouteTableSort /\ NoAcl /\ NoFlowLogs /\ NoLinks
NoLayout ==
    /\ pc = "off"
    /\ sub_cols = 0
    /\ omit = TRUE
    /\ az_list = <<>>
    /\ nacl_association_data = <<>>
    /\ nacl_list = <<>>
    /\ rt_list = <<>>
    /\ n_external = 0
    /\ col_loop = NoLoop
    /\ frame = NoFrame
    /\ cells = <<>>
    /\ dims_call = NoCall

(***************************************************************************)
(* Bounds of the model.                                                    *)
(***************************************************************************)
MaxCalls == 3       \* get_next_route calls on one generator
MaxRoutes == 3      \* routes added to one route table
MaxResources == 6   \* resources and associations in one resource tree
MaxAcls == 8        \* ACLs handed to the column loop
MaxCols == 3        \* the largest --sub_cols tried
MaxRules == 4           \* rules added to one ACL
MaxFlowLogs == 4        \* flow logs of the network
MaxZones == 5           \* zones of the region, for the passes over zones alone
MaxAssociations == 6    \* route tables read for one sort, plus their associations
MaxSubnets == 15        \* subnets of the network, for the bundle of ACL connections

(***************************************************************************)
(* Program constants.                                                      *)
(***************************************************************************)
PADDING == 60
RESOURCE_DISTRIBUTION == PADDING * 3
SUBNET_MIN_W == 340
SUBNET_MIN_H == 80
VPC_MIN_W == 200
VPC_MIN_H == 120
VPC_GUTTER_DIM == 700
DIAGRAM_LINE_HEIGHT == 20
DIAGRAM_HEADER_SPACING == 50
DIAGRAM_COL_WIDTH_SMALL == 70
DIAGRAM_COL_WIDTH_NORMAL == 120
DIAGRAM_COL_WIDTH_OVERSIZED == 210
LINE_BUNDLE_SPACING == 10
X_DIRECTION == 1
Y_DIRECTION == 0
UNSET == -1         \* "either of these may be omitted by passing -1"

(***************************************************************************)
(* RouteGroup                                                              *)
(***************************************************************************)
\* RouteGroup.__init__: stores its arguments; a bad direction only prints.
RouteGroupInit(start_x_bundle, start_y_bundle, starting_direction, bundle_spacing, additional_break) ==
    [bundle_spacing     |-> bundle_spacing,
     current_x          |-> start_x_bundle,
     current_y          |-> start_y_bundle,
     starting_direction |-> starting_direction,
     additional_break   |-> additional_break]

\* A mutant of complex_route: any direction other than X is taken as Y.
complex_route_else_y(g, origin_x, origin_y) ==
    IF g.starting_direction = X_DIRECTION
    THEN <<<<g.current_x, origin_y>>>>
         \o (IF g.current_y # UNSET THEN <<<<g.current_x, g.current_y>>>> ELSE <<>>)
         \o (IF g.additional_break # UNSET THEN <<<<g.additional_break, g.current_y>>>> ELSE <<>>)
    ELSE <<<<origin_x, g.current_y>>>>
         \o (IF g.current_x # UNSET THEN <<<<g.current_x, g.current_y>>>> ELSE <<>>)
         \o (IF g.additional_break # UNSET THEN <<<<g.current_x, g.additional_break>>>> ELSE <<>>)

\* A mutant of complex_route: the second waypoint is appended unconditionally.
complex_route_always_two(g, origin_x, origin_y) ==
    IF g.starting_direction = X_DIRECTION
    THEN <<<<g.current_x, origin_y>>, <<g.current_x, g.current_y>>>>
         \o (IF g.additional_break # UNSET THEN <<<<g.additional_break, g.current_y>>>> ELSE <<>>)
    ELSE IF g.starting_direction = Y_DIRECTION
    THEN <<<<origin_x, g.current_y>>, <<g.current_x, g.current_y>>>>
         \o (IF g.additional_break # UNSET THEN <<<<g.current_x, g.additional_break>>>> ELSE <<>>)
    ELSE <<>>

\* get_next_route, the waypoints it builds before it advances.
complex_route(g, origin_x, origin_y) ==
    IF g.starting_direction = X_DIRECTION
    THEN <<<<g.current_x, origin_y>>>>
         \o (IF g.current_y # UNSET THEN <<<<g.current_x, g.current_y>>>> ELSE <<>>)
         \o (IF g.additional_break # UNSET THEN <<<<g.additional_break, g.current_y>>>> ELSE <<>>)
    ELSE IF g.starting_direction = Y_DIRECTION
    THEN <<<<origin_x, g.current_y>>>>
         \o (IF g.current_x # UNSET THEN <<<<g.current_x, g.current_y>>>> ELSE <<>>)
         \o (IF g.additional_break # UNSET THEN <<<<g.current_x, g.additional_break>>>> ELSE <<>>)
    ELSE <<>>

\* A mutant of advance: the primary axis grows and the other shrinks.
advance_by_axis(g) ==
    IF g.starting_direction = Y_DIRECTION
    THEN [g EXCEPT
            !.current_y = IF @ # UNSET THEN @ + g.bundle_spacing ELSE @,
            !.current_x = IF @ # UNSET THEN @ - g.bundle_spacing ELSE @,
            !.additional_break = IF @ # UNSET THEN @ - g.bundle_spacing ELSE @]
    ELSE [g EXCEPT
            !.current_x = IF @ # UNSET THEN @ + g.bundle_spacing ELSE @,
            !.current_y = IF @ # UNSET THEN @ - g.bundle_spacing ELSE @,
            !.additional_break = IF @ # UNSET THEN @ - g.bundle_spacing ELSE @]

\* get_next_route, the state it leaves behind.
advance(g) ==
    [g EXCEPT
        !.current_x = IF @ # UNSET THEN @ + g.bundle_spacing ELSE @,
        !.current_y = IF @ # UNSET THEN @ - g.bundle_spacing ELSE @,
        !.additional_break = IF @ # UNSET THEN @ - g.bundle_spacing ELSE @]

\* RouteGroup.get_next_route: the route returned and the generator after it.
get_next_route(g, origin_x, origin_y) ==
    [route |-> complex_route(g, origin_x, origin_y), rg |-> advance(g)]

\* The arguments the generators of SpecRG are constructed with.
StartXs == {UNSET, -11, 0, 100}
StartYs == {UNSET, 9, 50}
Directions == {X_DIRECTION, Y_DIRECTION, 2}
Spacings == {LINE_BUNDLE_SPACING, 1}
Breaks == {UNSET, 19, 200}
Origins == {<<0, 0>>, <<5, 7>>}

InitRG ==
    /\ \E sx \in StartXs, sy \in StartYs, d \in Directions, s \in Spacings, b \in Breaks :
        /\ rg_args = [start_x |-> sx, start_y |-> sy, direction |-> d,
                      spacing |-> s, additional_break |-> b]
        /\ rg = RouteGroupInit(sx, sy, d, s, b)
    /\ rg_calls = <<>>
    /\ NoRouteTable
    /\ NoLayout
    /\ NoSide

GetNextRoute ==
    /\ Len(rg_calls) < MaxCalls
    /\ \E o \in Origins :
        LET r == get_next_route(rg, o[1], o[2]) IN
        /\ rg' = r.rg
        /\ rg_calls' = Append(rg_calls,
                [origin |-> o, route |-> r.route, before |-> rg, after |-> r.rg])
    /\ UNCHANGED <<rg_args, rtVars, layoutVars, sideVars>>

NextRG == GetNextRoute

SpecRG == InitRG /\ [][NextRG]_vars

ValidAxis(g) == g.starting_direction \in {X_DIRECTION, Y_DIRECTION}


(***************************************************************************)
(* RouteTableResource: routes and their ordering                           *)
(*                                                                         *)
(* A string that the code takes apart (a destination) is a tuple of        *)
(* one-character strings; the others are TLA+ strings.                     *)
(***************************************************************************)
Digits == {"0", "1", "2", "3", "4", "5", "6", "7", "8", "9"}

DigitVal(c) ==
    CASE c = "0" -> 0 [] c = "1" -> 1 [] c = "2" -> 2 [] c = "3" -> 3 [] c = "4" -> 4
      [] c = "5" -> 5 [] c = "6" -> 6 [] c = "7" -> 7 [] c = "8" -> 8 [] c = "9" -> 9

\* str.split("."): the pieces between the dots, empty pieces kept.
RECURSIVE SplitFrom(_, _, _)
SplitFrom(str, i, piece) ==
    IF i > Len(str) THEN <<piece>>
    ELSE IF str[i] = "." THEN <<piece>> \o SplitFrom(str, i + 1, <<>>)
    ELSE SplitFrom(str, i + 1, Append(piece, str[i]))

split(str) == SplitFrom(str, 1, <<>>)

\* int(s) of a string of decimal digits.
RECURSIVE DigitsValue(_, _)
DigitsValue(str, acc) ==
    IF str = <<>> THEN acc ELSE DigitsValue(Tail(str), acc * 10 + DigitVal(Head(str)))

\* int(s) raises ValueError: s is empty or holds a character that is no digit.
ValueError(str) == str = <<>> \/ \E k \in 1..Len(str) : str[k] \notin Digits

int(str) == DigitsValue(str, 0)

\* A mutant of cmp_cidr: greater and lesser are swapped.
RECURSIVE cmp_cidr_descending(_, _)
cmp_cidr_descending(cidr_one_list, cidr_two_list) ==
    IF cidr_one_list = <<>> \/ cidr_two_list = <<>> THEN 0
    ELSE LET val_one == int(cidr_one_list[1])
             val_two == int(cidr_two_list[1])
         IN IF ValueError(cidr_one_list[1]) THEN -1
            ELSE IF ValueError(cidr_two_list[1]) THEN 1
            ELSE IF val_one < val_two THEN 1
            ELSE IF val_one > val_two THEN -1
            ELSE cmp_cidr_descending(Tail(cidr_one_list), Tail(cidr_two_list))

\* RouteTableResource.cmp_cidr
RECURSIVE cmp_cidr(_, _)
cmp_cidr(cidr_one_list, cidr_two_list) ==
    IF cidr_one_list = <<>> \/ cidr_two_list = <<>> THEN 0
    ELSE LET val_one == int(cidr_one_list[1])
             val_two == int(cidr_two_list[1])
         IN IF ValueError(cidr_one_list[1]) THEN -1
            ELSE IF ValueError(cidr_two_list[1]) THEN 1
            ELSE IF val_one < val_two THEN -1
            ELSE IF val_one > val_two THEN 1
            ELSE cmp_cidr(Tail(cidr_one_list), Tail(cidr_two_list))

\* The comparison sorted() makes: cmp applied to the keys (route[0]) of two
\* routes, negative meaning "less than".
ISLT(route_one, route_two) ==
    cmp_cidr(split(route_one[1]), split(route_two[1])) < 0

Reverse(lst) == [k \in 1..Len(lst) |-> lst[Len(lst) + 1 - k]]

\* sorted() on fewer than 64 elements: the length of the run the list starts
\* with, and whether that run is strictly descending.
RECURSIVE RunEnd(_, _, _)
RunEnd(lst, k, descending) ==
    IF k > Len(lst) THEN k - 1
    ELSE IF ISLT(lst[k], lst[k - 1]) = descending THEN RunEnd(lst, k + 1, descending)
    ELSE k - 1

count_run(lst) ==
    IF Len(lst) < 2 THEN [n |-> Len(lst), descending |-> FALSE]
    ELSE LET descending == ISLT(lst[2], lst[1])
         IN [n |-> RunEnd(lst, 3, descending), descending |-> descending]

\* binarysort: where the pivot goes among lst[1..r], by bisection.
RECURSIVE Bisect(_, _, _, _)
Bisect(lst, pivot, l, r) ==
    IF l >= r THEN l
    ELSE LET p == l + ((r - l) \div 2)
         IN IF ISLT(pivot, lst[p + 1]) THEN Bisect(lst, pivot, l, p)
            ELSE Bisect(lst, pivot, p + 1, r)

RECURSIVE binarysort(_, _)
binarysort(lst, start) ==
    IF start >= Len(lst) THEN lst
    ELSE LET pivot == lst[start + 1]
             l == Bisect(lst, pivot, 0, start)
             moved == [k \in 1..Len(lst) |->
                         IF k <= l THEN lst[k]
                         ELSE IF k = l + 1 THEN pivot
                         ELSE IF k <= start + 1 THEN lst[k - 1]
                         ELSE lst[k]]
         IN binarysort(moved, start + 1)

\* sorted(self.routes, cmp=..., key=...): the leading run is found, reversed
\* if descending, and the rest is inserted by bisection.
sorted(lst) ==
    IF Len(lst) < 2 THEN lst
    ELSE LET run == count_run(lst)
             head == SubSeq(lst, 1, run.n)
             runSorted == (IF run.descending THEN Reverse(head) ELSE head)
                            \o SubSeq(lst, run.n + 1, Len(lst))
         IN binarysort(runSorted, run.n)

\* A mutant of MoveLocals: only the first local route is moved.
RECURSIVE MoveFirstLocal(_, _)
MoveFirstLocal(lst, r) ==
    IF r > Len(lst) THEN lst
    ELSE IF lst[r][3] = "local"
    THEN <<lst[r]>> \o SubSeq(lst, 1, r - 1) \o SubSeq(lst, r + 1, Len(lst))
    ELSE MoveFirstLocal(lst, r + 1)

\* sort_routes, its loop: each route whose gateway is 'local' is popped and
\* inserted at the front, r running over the positions.
RECURSIVE MoveLocals(_, _)
MoveLocals(lst, r) ==
    IF r > Len(lst) THEN lst
    ELSE IF lst[r][3] = "local"
    THEN MoveLocals(<<lst[r]>> \o SubSeq(lst, 1, r - 1) \o SubSeq(lst, r + 1, Len(lst)),
                    r + 1)
    ELSE MoveLocals(lst, r + 1)

\* RouteTableResource.sort_routes
sort_routes(rts) == MoveLocals(sorted(rts), 1)

\* RouteTableResource.simplify_origin
simplify_origin(origin) ==
    IF origin = "EnableVgwRoutePropagation" THEN "Propagated"
    ELSE IF origin = "CreateRoute" THEN "Create Route"
    ELSE IF origin = "CreateRouteTable" THEN "Create Table"
    ELSE origin

\* Destinations as the strings the code reads: CIDR blocks and a prefix-list name.
D0_0_0_0_0 == <<"0", ".", "0", ".", "0", ".", "0", "/", "0">>
D10_0_0_0_16 == <<"1", "0", ".", "0", ".", "0", ".", "0", "/", "1", "6">>
D10_0_0_128_25 == <<"1", "0", ".", "0", ".", "0", ".", "1", "2", "8", "/", "2", "5">>
D192_168_0_0_24 == <<"1", "9", "2", ".", "1", "6", "8", ".", "0", ".", "0", "/", "2", "4">>
Dcom_s3 == <<"c", "o", "m", ".", "s", "3">>

\* The destinations, gateways and origins routes are added with.
Destinations ==
    { D0_0_0_0_0,
      D10_0_0_0_16,
      D10_0_0_128_25,
      D192_168_0_0_24,
      Dcom_s3 }
GatewayIds == {"local", "igw-1"}
RouteOrigins == {"CreateRoute"}

InitRoutes ==
    /\ routes = <<>>
    /\ sorted_routes = NotSorted
    /\ NoRouteGroup
    /\ NoLayout
    /\ NoSide

\* RouteTableResource.add_route
AddRoute ==
    /\ Len(routes) < MaxRoutes
    /\ \E dest_cidr \in Destinations, gw_id \in GatewayIds, origin \in RouteOrigins :
        routes' = Append(routes, <<dest_cidr, "active", gw_id, simplify_origin(origin)>>)
    /\ sorted_routes' = NotSorted     \* a result returned earlier is of the old list
    /\ UNCHANGED <<rgVars, layoutVars, sideVars>>

\* A call of RouteTableResource.sort_routes; self.routes is left as it is.
SortRoutes ==
    /\ ~sorted_routes.called
    /\ sorted_routes' = [called |-> TRUE, result |-> sort_routes(routes)]
    /\ UNCHANGED <<routes, rgVars, layoutVars, sideVars>>

NextRoutes == AddRoute \/ SortRoutes

SpecRoutes == InitRoutes /\ [][NextRoutes]_vars

(***************************************************************************)
(* The resource tree.                                                      *)
(*                                                                         *)
(* visualize_vpc reads the resources into lists of objects; the model      *)
(* keeps what sizing and placement read from them:                         *)
(*   zone    [subnets, width_override]                                     *)
(*   subnet  [name, ngs, associations]   ngs = len(ng_list); the name is   *)
(*           its rank in string order; associations are indexes into       *)
(*           nacl_list (the ACL object of the association tuple)           *)
(*   ACL     [col_suggestion, x]                                           *)
(*   route table [routes, az]   routes = len(routes); az is the zone of    *)
(*           get_suggested_az, 0 for NO_AZ                                 *)
(* cells holds the vertex cells of the resources (containers and device    *)
(* icons) in the order they are emitted; labels, connector edges and the   *)
(* side lists are not kept.                                                *)
(***************************************************************************)
Max(a, b) == IF a >= b THEN a ELSE b

NO_AZ == 0

\* The inputs the resource tree is built from.
SubnetNames == {1, 2}
NgCounts == {0, 1, 2}
RouteCounts == {0, 1}
SubColsChoices == {1, 3}            \* --sub_cols: one column, and the default
ColsChoices == (-MaxCols) .. MaxCols   \* --subcols takes any integer

\* AZResource.__init__
AZResource == [subnets |-> <<>>, width_override |-> <<FALSE, 0>>]

\* SubnetResource.__init__ and the register_ng calls that follow it
SubnetResource(name, ngs) == [name |-> name, ngs |-> ngs, associations |-> <<>>]

\* NAclResource.__init__
NAclResource == [col_suggestion |-> 0, x |-> 0, rules |-> 0]

\* RouteTableResource.__init__ with its add_route and register_rt_association calls
RouteTableResource(n_routes, az) == [routes |-> n_routes, az |-> az]

\* AZResource.override_width
override_width(az, width) == [az EXCEPT !.width_override = <<TRUE, width>>]

\* AZResource.empty
empty(az) == Len(az.subnets) = 0

\* A mutant of override_all: the zones are widened to the full requirement.
override_all_no_padding(azs, az_max_width_requirement) ==
    [z \in DOMAIN azs |-> override_width(azs[z], az_max_width_requirement)]

\* VpcResource.get_dimensions, the loop that widens every zone
override_all(azs, az_max_width_requirement) ==
    [z \in DOMAIN azs |-> override_width(azs[z], az_max_width_requirement - PADDING)]

\* SubnetResource.get_dimensions
Subnet_get_dimensions(subnet) ==
    LET ng_height_requirement == subnet.ngs * RESOURCE_DISTRIBUTION - PADDING
        h == IF ng_height_requirement > SUBNET_MIN_H
             THEN ng_height_requirement ELSE SUBNET_MIN_H
    IN  <<SUBNET_MIN_W, h>>

\* AZResource.get_dimensions: the loop over the subnets, from (w, h)
RECURSIVE AZ_subnet_loop(_, _)
AZ_subnet_loop(subnets, wh) ==
    IF subnets = <<>> THEN wh
    ELSE LET new == Subnet_get_dimensions(Head(subnets))
         IN  AZ_subnet_loop(Tail(subnets), <<new[1], wh[2] + new[2] + PADDING>>)

\* AZResource.get_dimensions
AZ_get_dimensions(az) ==
    LET wh == AZ_subnet_loop(az.subnets, <<0, PADDING>>)
    IN  IF az.width_override[1]
        THEN <<az.width_override[2], wh[2]>>
        ELSE <<wh[1] + (2 * PADDING), wh[2]>>

\* VpcResource.check_empty
check_empty(azs, nacls, rts) == azs = <<>> /\ nacls = <<>> /\ rts = <<>>

\* VpcResource.get_dimensions: the loop over the zones, from
\* (az_max_width_requirement, az_combined_height_requirement)
RECURSIVE Vpc_az_loop(_, _)
Vpc_az_loop(azs, req) ==
    IF azs = <<>> THEN req
    ELSE LET wh == AZ_get_dimensions(Head(azs))
         IN  Vpc_az_loop(Tail(azs),
                         <<IF wh[1] + PADDING > req[1] THEN wh[1] + PADDING ELSE req[1],
                           req[2] + wh[2]>>)

\* VpcResource.get_dimensions: the size, and the zones as the call leaves them
Vpc_get_dimensions(azs, nacls, rts) ==
    IF check_empty(azs, nacls, rts)
    THEN [dims |-> <<VPC_MIN_W, VPC_MIN_H>>, az_list |-> azs]
    ELSE
    LET req == Vpc_az_loop(azs, <<RESOURCE_DISTRIBUTION + PADDING,
                                  RESOURCE_DISTRIBUTION + (2 * PADDING)>>)
        nacl_combined_width_requirement == Len(nacls) * RESOURCE_DISTRIBUTION
        widen == nacl_combined_width_requirement > req[1]
        az_max_width_requirement ==
            IF widen THEN nacl_combined_width_requirement ELSE req[1]
        rt_combined_height_requirement == Len(rts) * RESOURCE_DISTRIBUTION
        az_combined_height_requirement ==
            IF rt_combined_height_requirement > req[2]
            THEN rt_combined_height_requirement ELSE req[2]
    IN  [dims |-> <<az_max_width_requirement + (5 * PADDING),
                    az_combined_height_requirement + (2 * PADDING)>>,
         az_list |-> IF widen THEN override_all(azs, az_max_width_requirement)
                     ELSE azs]

\* RegionResource.get_dimensions
Region_get_dimensions(azs, nacls, rts, region_height_override) ==
    LET vpc == Vpc_get_dimensions(azs, nacls, rts)
    IN  [dims |-> <<vpc.dims[1] + (2 * PADDING),
                    Max(vpc.dims[2], region_height_override) + (2 * PADDING)>>,
         az_list |-> vpc.az_list]

\* visualize_vpc: the room the devices beside the network need
external_resource_space(n) == RESOURCE_DISTRIBUTION + (RESOURCE_DISTRIBUTION * n)

(***************************************************************************)
(* Reading the resources (visualize_vpc up to the VpcResource).            *)
(***************************************************************************)
RECURSIVE Sum(_)
Sum(seq) == IF seq = <<>> THEN 0 ELSE Head(seq) + Sum(Tail(seq))

SubnetWeight(subnet) == 1 + subnet.ngs
AzWeight(az) == 1 + Sum([s \in DOMAIN az.subnets |-> SubnetWeight(az.subnets[s])])
RtWeight(rt) == 1 + rt.routes

\* The number of resources, devices, routes and associations read so far.
Weight ==
    Sum([z \in DOMAIN az_list |-> AzWeight(az_list[z])])
    + Len(nacl_list) + Len(nacl_association_data)
    + Sum([j \in DOMAIN rt_list |-> RtWeight(rt_list[j])]) + n_external

\* The subnets read so far, as (zone, position in the zone).
SubnetRefs ==
    UNION {{<<z, s>> : s \in DOMAIN az_list[z].subnets} : z \in DOMAIN az_list}

\* A set of subnet references as a list, in reading order.
RECURSIVE RefList(_)
RefList(refs) ==
    IF refs = {} THEN <<>>
    ELSE LET first == CHOOSE r \in refs :
                 \A q \in refs : r[1] < q[1] \/ (r[1] = q[1] /\ r[2] <= q[2])
         IN  <<first>> \o RefList(refs \ {first})

InitLayout ==
    /\ pc = "build"
    /\ sub_cols \in SubColsChoices
    /\ omit \in BOOLEAN
    /\ az_list = <<>>
    /\ nacl_association_data = <<>>
    /\ nacl_list = <<>>
    /\ rt_list = <<>>
    /\ n_external = 0
    /\ col_loop = NoLoop
    /\ frame = NoFrame
    /\ cells = <<>>
    /\ dims_call = NoCall
    /\ NoRouteGroup
    /\ NoRouteTable
    /\ NoSide

\* visualize_vpc: az_resources.append(AZResource(...))
AddAz ==
    /\ pc = "build"
    /\ Weight + 1 <= MaxResources
    /\ az_list' = Append(az_list, AZResource)
    /\ UNCHANGED <<sub_cols, omit, nacl_association_data, nacl_list, rt_list, n_external>>
    /\ UNCHANGED <<passVars, rgVars, rtVars, sideVars>>

\* visualize_vpc: a subnet of the network is registered with its zone, and
\* the NAT devices that name the subnet are registered with it.
AddSubnet ==
    /\ pc = "build"
    /\ \E z \in DOMAIN az_list, name \in SubnetNames, ngs \in NgCounts :
          /\ Weight + 1 + ngs <= MaxResources
          /\ az_list' = [az_list EXCEPT ![z].subnets = Append(@, SubnetResource(name, ngs))]
    /\ UNCHANGED <<sub_cols, omit, nacl_association_data, nacl_list, rt_list, n_external>>
    /\ UNCHANGED <<passVars, rgVars, rtVars, sideVars>>

\* visualize_vpc: an ACL is read with its associations; it is kept when it
\* has one or when unassociated resources are not left out.
AddNacl ==
    /\ pc = "build"
    /\ \E refs \in SUBSET SubnetRefs :
          /\ refs # {} \/ ~omit
          /\ Weight + 1 + Cardinality(refs) <= MaxResources
          /\ nacl_list' = Append(nacl_list, NAclResource)
          /\ nacl_association_data' = nacl_association_data \o
                [i \in 1 .. Cardinality(refs) |-> <<RefList(refs)[i], Len(nacl_list) + 1>>]
    /\ UNCHANGED <<sub_cols, omit, az_list, rt_list, n_external>>
    /\ UNCHANGED <<passVars, rgVars, rtVars, sideVars>>

\* visualize_vpc: a route table is read with its routes; its associations
\* name subnets of one zone, or there are none.
AddRt ==
    /\ pc = "build"
    /\ \E n_routes \in RouteCounts,
          az \in {NO_AZ} \cup {z \in DOMAIN az_list : ~empty(az_list[z])} :
          /\ az # NO_AZ \/ ~omit
          /\ Weight + 1 + n_routes <= MaxResources
          /\ rt_list' = Append(rt_list, RouteTableResource(n_routes, az))
    /\ UNCHANGED <<sub_cols, omit, az_list, nacl_association_data, nacl_list, n_external>>
    /\ UNCHANGED <<passVars, rgVars, rtVars, sideVars>>

\* visualize_vpc: a peering, gateway or endpoint of the network is read.
AddExternal ==
    /\ pc = "build"
    /\ Weight + 1 <= MaxResources
    /\ n_external' = n_external + 1
    /\ UNCHANGED <<sub_cols, omit, az_list, nacl_association_data, nacl_list, rt_list>>
    /\ UNCHANGED <<passVars, rgVars, rtVars, sideVars>>

(***************************************************************************)
(* The column loop.                                                        *)
(***************************************************************************)
\* a / b on integers: the floor of the quotient, for b # 0
floordiv(a, b) == IF b > 0 THEN a \div b ELSE (-a) \div (-b)

\* int(math.ceil(float(len(nacl_resources)) / SUBNET_ALIGNMENT_COLS)), for
\* N # 0; the float division raises ZeroDivisionError for N = 0.
column_div(n, N) == -floordiv(-n, N)

\* A mutant of col_hint: the ACLs are counted from one.
col_hint_from_one(i, div) == floordiv(i + 1, div)

\* int(i / div), for div # 0; the division raises ZeroDivisionError for div = 0.
col_hint(i, div) == floordiv(i, div)

\* NAclResource.add_col_suggestion
add_col_suggestion(nacl, suggestion) == [nacl EXCEPT !.col_suggestion = suggestion]

\* The whole loop over nacl_resources.
col_suggestions(nacls, N) ==
    [j \in DOMAIN nacls |->
        add_col_suggestion(nacls[j], col_hint(j - 1, column_div(Len(nacls), N)))]

\* The ACLs of the associations registered with one subnet, in order.
RECURSIVE associations_of(_, _)
associations_of(ref, assoc_data) ==
    IF assoc_data = <<>> THEN <<>>
    ELSE (IF Head(assoc_data)[1] = ref THEN <<Head(assoc_data)[2]>> ELSE <<>>)
         \o associations_of(ref, Tail(assoc_data))

\* The loop that hands every association to its subnet.
register_nacl_associations(azs, assoc_data) ==
    [z \in DOMAIN azs |->
        [azs[z] EXCEPT !.subnets =
            [s \in DOMAIN azs[z].subnets |->
                [azs[z].subnets[s] EXCEPT
                    !.associations = associations_of(<<z, s>>, assoc_data)]]]]

\* visualize_vpc: the VpcResource is put together and every ACL gets its column.
Assemble ==
    /\ pc = "build"
    /\ pc' = "assembled"
    /\ az_list' = register_nacl_associations(az_list, nacl_association_data)
    /\ nacl_list' = col_suggestions(nacl_list, sub_cols)
    /\ UNCHANGED <<sub_cols, omit, nacl_association_data, rt_list, n_external>>
    /\ UNCHANGED <<col_loop, frame, cells, dims_call, rgVars, rtVars, sideVars>>

\* SpecCols: the loop alone, one iteration at a time, over any number of ACLs.
InitCols ==
    /\ pc = "cols"
    /\ sub_cols \in ColsChoices
    /\ omit = TRUE
    /\ az_list = <<>>
    /\ nacl_association_data = <<>>
    /\ \E n \in 0 .. MaxAcls : nacl_list = [j \in 1 .. n |-> NAclResource]
    /\ rt_list = <<>>
    /\ n_external = 0
    /\ col_loop = NoLoop
    /\ frame = NoFrame
    /\ cells = <<>>
    /\ dims_call = NoCall
    /\ NoRouteGroup
    /\ NoRouteTable
    /\ NoSide

\* i = 0 and div = ...
ColumnsBegin ==
    /\ pc = "cols"
    /\ IF sub_cols = 0
       THEN pc' = "raised" /\ UNCHANGED col_loop
       ELSE /\ pc' = "cols_loop"
            /\ col_loop' = [i |-> 0, div |-> column_div(Len(nacl_list), sub_cols)]
    /\ UNCHANGED <<treeVars, frame, cells, dims_call, rgVars, rtVars, sideVars>>

\* One iteration of the loop.
ColumnsStep ==
    /\ pc = "cols_loop"
    /\ col_loop.i < Len(nacl_list)
    /\ IF col_loop.div = 0
       THEN pc' = "raised" /\ UNCHANGED <<nacl_list, col_loop>>
       ELSE /\ nacl_list' = [nacl_list EXCEPT ![col_loop.i + 1] =
                                add_col_suggestion(@, col_hint(col_loop.i, col_loop.div))]
            /\ col_loop' = [col_loop EXCEPT !.i = @ + 1]
            /\ UNCHANGED pc
    /\ UNCHANGED <<sub_cols, omit, az_list, nacl_association_data, rt_list, n_external>>
    /\ UNCHANGED <<frame, cells, dims_call, rgVars, rtVars, sideVars>>

NextCols == ColumnsBegin \/ ColumnsStep

SpecCols == InitCols /\ [][NextCols]_vars

(***************************************************************************)
(* get_dimensions called from outside the pass (SpecSizing).               *)
(***************************************************************************)
SizingTarget(kind, z, s, region_height_override) ==
    [kind |-> kind, z |-> z, s |-> s, region_height_override |-> region_height_override]

\* The containers of the tree a caller can size, with the argument given.
SizingTargets ==
    {SizingTarget("subnet", ref[1], ref[2], 0) : ref \in SubnetRefs}
    \cup {SizingTarget("az", z, 0, 0) : z \in DOMAIN az_list}
    \cup {SizingTarget("vpc", 0, 0, 0)}
    \cup {SizingTarget("region", 0, 0, o) : o \in {0, external_resource_space(n_external)}}

\* The size one call returns, and the zones as the call leaves them.
get_dimensions(t) ==
    CASE t.kind = "subnet" ->
            [dims |-> Subnet_get_dimensions(az_list[t.z].subnets[t.s]), az_list |-> az_list]
      [] t.kind = "az" ->
            [dims |-> AZ_get_dimensions(az_list[t.z]), az_list |-> az_list]
      [] t.kind = "vpc" ->
            Vpc_get_dimensions(az_list, nacl_list, rt_list)
      [] t.kind = "region" ->
            Region_get_dimensions(az_list, nacl_list, rt_list, t.region_height_override)

\* One get_dimensions call on one container of the assembled tree.
GetDimensions ==
    /\ pc = "assembled"
    /\ \E t \in SizingTargets :
          LET r == get_dimensions(t)
              again == dims_call.made /\ dims_call.target = t
          IN  /\ dims_call' = [made |-> TRUE, target |-> t, dims |-> r.dims,
                               again |-> again,
                               before |-> IF again THEN dims_call.dims ELSE r.dims]
              /\ az_list' = r.az_list
    /\ UNCHANGED <<pc, sub_cols, omit, nacl_association_data, nacl_list, rt_list, n_external>>
    /\ UNCHANGED <<col_loop, frame, cells, rgVars, rtVars, sideVars>>

InitSizing == InitLayout /\ sub_cols = 3 /\ omit = FALSE

NextSizing == AddAz \/ AddSubnet \/ AddNacl \/ AddRt \/ AddExternal \/ Assemble \/ GetDimensions

SpecSizing == InitSizing /\ [][NextSizing]_vars

(***************************************************************************)
(* Placement: the render_xml methods.                                      *)
(***************************************************************************)
Cell(kind, z, s, k, x, y, w, h) ==
    [kind |-> kind, z |-> z, s |-> s, k |-> k, x |-> x, y |-> y, w |-> w, h |-> h]

\* sorted(..., key=...) over a list of keys: the positions, in sorted order.
\* The sort is stable.
RECURSIVE insort(_, _, _)
insort(out, j, keys) ==
    IF out = <<>> THEN <<j>>
    ELSE IF keys[Head(out)] <= keys[j]
         THEN <<Head(out)>> \o insort(Tail(out), j, keys)
         ELSE <<j>> \o out

RECURSIVE sorted_key_upto(_, _)
sorted_key_upto(keys, n) ==
    IF n = 0 THEN <<>> ELSE insort(sorted_key_upto(keys, n - 1), n, keys)

sorted_key(keys) == sorted_key_upto(keys, Len(keys))

\* A mutant of get_col_suggestion: the last association decides.
get_col_suggestion_last(subnet, nacls) ==
    IF Len(subnet.associations) > 0
    THEN nacls[subnet.associations[Len(subnet.associations)]].col_suggestion
    ELSE 0

\* SubnetResource.get_col_suggestion
get_col_suggestion(subnet, nacls) ==
    IF Len(subnet.associations) > 0
    THEN nacls[subnet.associations[1]].col_suggestion
    ELSE 0

\* SubnetResource.render_xml: the subnet's box and its NAT devices
Subnet_render_xml(subnet, z, s, x, y) ==
    LET wh == Subnet_get_dimensions(subnet)
        ng_x == x + wh[1] - (PADDING \div 2)
        ng_y == y + (wh[2] \div 2)
    IN  <<Cell("subnet", z, s, 0, x, y, wh[1], wh[2])>> \o
        [k \in 1 .. subnet.ngs |->
            Cell("ng", z, s, k, ng_x, ng_y + (k - 1) * RESOURCE_DISTRIBUTION, 50, 50)]

\* A mutant of AZ_render_loop: the column step is the N-th part of the whole
\* width of the zone.
RECURSIVE AZ_render_loop_whole_width(_, _, _, _, _, _, _, _)
AZ_render_loop_whole_width(az, z, order, subnet_x, subnet_y, width, nacls, N) ==
    IF order = <<>> THEN <<>>
    ELSE LET subnet == az.subnets[Head(order)]
             col_suggestion == get_col_suggestion(subnet, nacls)
             sub == Subnet_get_dimensions(subnet)
             offset == col_suggestion * (width \div N)
         IN  Subnet_render_xml(subnet, z, Head(order), subnet_x + offset, subnet_y)
             \o AZ_render_loop_whole_width(az, z, Tail(order), subnet_x,
                                           subnet_y + PADDING + sub[2], width, nacls, N)

\* AZResource.render_xml: the loop over the sorted subnets
RECURSIVE AZ_render_loop(_, _, _, _, _, _, _, _)
AZ_render_loop(az, z, order, subnet_x, subnet_y, width, nacls, N) ==
    IF order = <<>> THEN <<>>
    ELSE LET subnet == az.subnets[Head(order)]
             col_suggestion == get_col_suggestion(subnet, nacls)
             sub == Subnet_get_dimensions(subnet)
             offset == col_suggestion * ((width - sub[1] - PADDING) \div N)
         IN  Subnet_render_xml(subnet, z, Head(order), subnet_x + offset, subnet_y)
             \o AZ_render_loop(az, z, Tail(order), subnet_x,
                               subnet_y + PADDING + sub[2], width, nacls, N)

\* AZResource.render_xml
AZ_render_xml(az, z, x, y, nacls, N) ==
    LET wh == AZ_get_dimensions(az)
        sorted_subnets == sorted_key([s \in DOMAIN az.subnets |-> az.subnets[s].name])
    IN  <<Cell("az", z, 0, 0, x, y, wh[1], wh[2])>> \o
        AZ_render_loop(az, z, sorted_subnets, x + PADDING, y + PADDING, wh[1], nacls, N)

\* A mutant of sort_rt_resources: NO_AZ is put at the front of az_sorting_list.
sort_rt_resources_no_az_first(azs, nacls, rts) ==
    IF check_empty(azs, nacls, rts) THEN <<>>
    ELSE sorted_key([j \in DOMAIN rts |->
                        IF rts[j].az = NO_AZ THEN 0 ELSE rts[j].az])

\* VpcResource.sort_rt_resources: the positions of rt_list in drawing order
sort_rt_resources(azs, nacls, rts) ==
    IF check_empty(azs, nacls, rts) THEN <<>>
    ELSE sorted_key([j \in DOMAIN rts |->
                        IF rts[j].az = NO_AZ THEN Len(azs) + 1 ELSE rts[j].az])

\* DiagramList.render_xml: the height it returns for a list of n rows
DiagramList_height(n) == DIAGRAM_HEADER_SPACING + (DIAGRAM_LINE_HEIGHT * n)

\* DiagramList.render_xml: the swimlane cell it draws for a list of n rows.
DiagramList_render_xml(kind, j, x, y, col_widths, n) ==
    [kind |-> kind, k |-> j, x |-> x, y |-> y,
     w |-> Sum(col_widths), h |-> DiagramList_height(n)]

\* NAclResource.render_xml: the list of the rules of the ACL drawn at x; the
\* rows are the rules and the separator line between egress and ingress.
NAcl_list(nacl, j, x) ==
    DiagramList_render_xml("nacl_list", j,
        (((x - VPC_GUTTER_DIM) * 7) \div 2) - ((3 * VPC_GUTTER_DIM) \div 2), PADDING,
        <<DIAGRAM_COL_WIDTH_NORMAL, DIAGRAM_COL_WIDTH_SMALL, DIAGRAM_COL_WIDTH_SMALL,
          DIAGRAM_COL_WIDTH_OVERSIZED, DIAGRAM_COL_WIDTH_SMALL>>,
        nacl.rules + 1)

\* VpcResource.render_xml: the lists of the route tables drawn by the loop
\* over them, down to the table whose render_xml raises.
RECURSIVE Rt_lists(_, _, _)
Rt_lists(order, rts, rt_list_y) ==
    IF order = <<>> \/ rts[Head(order)].routes = 0 THEN <<>>
    ELSE LET rt_height == DiagramList_height(rts[Head(order)].routes)
         IN  <<DiagramList_render_xml("rt_list", Head(order), 0,
                    rt_list_y - RESOURCE_DISTRIBUTION,
                    <<DIAGRAM_COL_WIDTH_OVERSIZED, DIAGRAM_COL_WIDTH_SMALL,
                      DIAGRAM_COL_WIDTH_NORMAL, DIAGRAM_COL_WIDTH_NORMAL>>,
                    rts[Head(order)].routes)>>
             \o Rt_lists(Tail(order), rts,
                         rt_list_y + Max(PADDING + rt_height, RESOURCE_DISTRIBUTION))

\* VpcResource.render_xml: the loop over the route tables.  A table without
\* routes is drawn and then RouteTableResource.render_xml raises, reading
\* resource_height before any assignment.
RECURSIVE Rt_render_loop(_, _, _, _)
Rt_render_loop(order, rts, rt_x, rt_y) ==
    IF order = <<>> THEN [cells |-> <<>>, raised |-> FALSE]
    ELSE LET rt == rts[Head(order)]
             cell == Cell("rt", 0, 0, Head(order), rt_x, rt_y, 50, 50)
             rt_height == DiagramList_height(rt.routes)
             rest == Rt_render_loop(Tail(order), rts, rt_x,
                        rt_y + Max((rt_height * 10) \div 13, RESOURCE_DISTRIBUTION))
         IN  IF rt.routes = 0
             THEN [cells |-> <<cell>>, raised |-> TRUE]
             ELSE [cells |-> <<cell>> \o rest.cells, raised |-> rest.raised]

\* A mutant of place_az: an empty zone is always drawn on the left of a
\* fresh row.
place_az_always_left(f, az) ==
    IF empty(az)
    THEN LET az1 == override_width(az, f.small_az_width)
         IN  [az |-> az1, x |-> f.az_x, y |-> f.az_y,
              az_y |-> f.az_y + PADDING + AZ_get_dimensions(az1)[2], right |-> FALSE]
    ELSE LET y == IF f.right THEN f.az_y + SUBNET_MIN_H + PADDING ELSE f.az_y
         IN  [az |-> az, x |-> f.az_x, y |-> y,
              az_y |-> y + PADDING + AZ_get_dimensions(az)[2], right |-> FALSE]

\* A mutant of place_az: a zone with subnets that follows a lone empty zone
\* is moved down by the padding alone.
place_az_short_step(f, az) ==
    IF empty(az)
    THEN LET az1 == override_width(az, f.small_az_width)
         IN  IF f.right
             THEN [az |-> az1, x |-> f.az_x + f.small_az_width + PADDING, y |-> f.az_y,
                   az_y |-> f.az_y + PADDING + AZ_get_dimensions(az1)[2], right |-> FALSE]
             ELSE [az |-> az1, x |-> f.az_x, y |-> f.az_y,
                   az_y |-> f.az_y, right |-> TRUE]
    ELSE LET y == IF f.right THEN f.az_y + PADDING ELSE f.az_y
         IN  [az |-> az, x |-> f.az_x, y |-> y,
              az_y |-> y + PADDING + AZ_get_dimensions(az)[2], right |-> FALSE]

\* A mutant of place_az: a zone with subnets that follows a lone empty zone
\* is not moved below it.
place_az_same_row(f, az) ==
    IF empty(az)
    THEN LET az1 == override_width(az, f.small_az_width)
         IN  IF f.right
             THEN [az |-> az1, x |-> f.az_x + f.small_az_width + PADDING, y |-> f.az_y,
                   az_y |-> f.az_y + PADDING + AZ_get_dimensions(az1)[2], right |-> FALSE]
             ELSE [az |-> az1, x |-> f.az_x, y |-> f.az_y,
                   az_y |-> f.az_y, right |-> TRUE]
    ELSE [az |-> az, x |-> f.az_x, y |-> f.az_y,
          az_y |-> f.az_y + PADDING + AZ_get_dimensions(az)[2], right |-> FALSE]

\* A mutant of place_az: an empty zone is given the width of the whole network.
place_az_network_width(f, az) ==
    IF empty(az)
    THEN LET az1 == override_width(az, f.vpc_width)
         IN  IF f.right
             THEN [az |-> az1, x |-> f.az_x + f.small_az_width + PADDING, y |-> f.az_y,
                   az_y |-> f.az_y + PADDING + AZ_get_dimensions(az1)[2], right |-> FALSE]
             ELSE [az |-> az1, x |-> f.az_x, y |-> f.az_y,
                   az_y |-> f.az_y, right |-> TRUE]
    ELSE LET y == IF f.right THEN f.az_y + SUBNET_MIN_H + PADDING ELSE f.az_y
         IN  [az |-> az, x |-> f.az_x, y |-> y,
              az_y |-> y + PADDING + AZ_get_dimensions(az)[2], right |-> FALSE]

\* VpcResource.render_xml, one turn of the loop over the zones: where the
\* zone is drawn, the zone as the turn leaves it, and az_y and right after it
place_az(f, az) ==
    IF empty(az)
    THEN LET az1 == override_width(az, f.small_az_width)
         IN  IF f.right
             THEN [az |-> az1, x |-> f.az_x + f.small_az_width + PADDING, y |-> f.az_y,
                   az_y |-> f.az_y + PADDING + AZ_get_dimensions(az1)[2], right |-> FALSE]
             ELSE [az |-> az1, x |-> f.az_x, y |-> f.az_y,
                   az_y |-> f.az_y, right |-> TRUE]
    ELSE LET y == IF f.right THEN f.az_y + SUBNET_MIN_H + PADDING ELSE f.az_y
         IN  [az |-> az, x |-> f.az_x, y |-> y,
              az_y |-> y + PADDING + AZ_get_dimensions(az)[2], right |-> FALSE]

\* visualize_vpc: the region is sized, and the account is sized from it and drawn.
RenderAccount ==
    /\ pc = "assembled"
    /\ pc' = "account"
    /\ LET region == Region_get_dimensions(az_list, nacl_list, rt_list,
                                           external_resource_space(n_external))
           region_bottom_y == region.dims[2] + VPC_GUTTER_DIM
           region_right_x == region.dims[1] + VPC_GUTTER_DIM
       IN  /\ az_list' = region.az_list
           /\ cells' = Append(cells,
                  Cell("account", 0, 0, 0, -PADDING, 0,
                       region_right_x + VPC_GUTTER_DIM + RESOURCE_DISTRIBUTION + PADDING,
                       region_bottom_y + PADDING))
    /\ UNCHANGED <<sub_cols, omit, nacl_association_data, nacl_list, rt_list, n_external>>
    /\ UNCHANGED <<col_loop, frame, dims_call, rgVars, rtVars, sideVars>>

\* RegionResource.render_xml up to its call of VpcResource.render_xml
RenderRegion ==
    /\ pc = "account"
    /\ pc' = "region"
    /\ LET region == Region_get_dimensions(az_list, nacl_list, rt_list,
                                           external_resource_space(n_external))
           x == VPC_GUTTER_DIM
           y == VPC_GUTTER_DIM
       IN  /\ az_list' = region.az_list
           /\ cells' = Append(cells, Cell("region", 0, 0, 0, x, y,
                                          region.dims[1], region.dims[2]))
           /\ frame' = [step |-> "vpc", x |-> x + PADDING, y |-> y + PADDING,
                        vpc_height_override |-> region.dims[2] - (2 * PADDING)]
    /\ UNCHANGED <<sub_cols, omit, nacl_association_data, nacl_list, rt_list, n_external>>
    /\ UNCHANGED <<col_loop, dims_call, rgVars, rtVars, sideVars>>

\* VpcResource.render_xml: the network's box and the row of ACLs
VpcRenderNacls ==
    /\ pc = "region"
    /\ pc' = "nacls"
    /\ LET vpc == Vpc_get_dimensions(az_list, nacl_list, rt_list)
           vpc_x == frame.x
           vpc_y == frame.y
           vpc_width == vpc.dims[1]
           vpc_height == Max(vpc.dims[2], frame.vpc_height_override)
           nacl_x == vpc_x + RESOURCE_DISTRIBUTION + (2 * PADDING)
           nacl_y == vpc_y + PADDING
       IN  /\ az_list' = vpc.az_list
           /\ nacl_list' = [j \in DOMAIN nacl_list |->
                  [nacl_list[j] EXCEPT !.x = nacl_x + (j - 1) * RESOURCE_DISTRIBUTION]]
           /\ cells' = cells
                  \o <<Cell("vpc", 0, 0, 0, vpc_x, vpc_y, vpc_width, vpc_height)>>
                  \o [j \in DOMAIN nacl_list |->
                         Cell("nacl", 0, 0, j, nacl_x + (j - 1) * RESOURCE_DISTRIBUTION,
                              nacl_y, 50, 50)]
           /\ frame' = [step |-> "rts", vpc_x |-> vpc_x, vpc_y |-> vpc_y,
                        vpc_width |-> vpc_width, vpc_height |-> vpc_height,
                        dimensions |-> vpc.dims,
                        lists |-> [j \in DOMAIN nacl_list |->
                            NAcl_list(nacl_list[j], j,
                                      nacl_x + (j - 1) * RESOURCE_DISTRIBUTION)]]
    /\ UNCHANGED <<sub_cols, omit, nacl_association_data, rt_list, n_external>>
    /\ UNCHANGED <<col_loop, dims_call, rgVars, rtVars, sideVars>>

\* SubnetResource.render_xml: the loop over self.associations.  Every
\* association draws one edge to its ACL along the next route of the
\* generator; acc holds the generator and the routes issued so far.
RECURSIVE Subnet_connections(_, _, _, _)
Subnet_connections(n, x, y, acc) ==
    IF n = 0 THEN acc
    ELSE LET r == get_next_route(acc.rg, x, y + 30)
         IN  Subnet_connections(n - 1, x, y,
                                [rg |-> r.rg, routes |-> Append(acc.routes, r.route)])

\* AZResource.render_xml: the routes its subnets take from the generator,
\* in the order the subnets are drawn (cs are the cells of the call).
RECURSIVE AZ_connections(_, _, _)
AZ_connections(cs, az, acc) ==
    IF cs = <<>> THEN acc
    ELSE AZ_connections(Tail(cs), az,
            IF Head(cs).kind = "subnet"
            THEN Subnet_connections(Len(az.subnets[Head(cs).s].associations),
                                    Head(cs).x, Head(cs).y, acc)
            ELSE acc)

\* VpcResource.render_xml: total_subnets
total_subnets(azs) == Sum([z \in DOMAIN azs |-> Len(azs[z].subnets)])

\* VpcResource.render_xml: nacl_route_generator = RouteGroup(...)
nacl_route_generator(vpc_x, vpc_y, vpc_width, azs) ==
    RouteGroupInit((vpc_width + vpc_x - PADDING) - (total_subnets(azs) * LINE_BUNDLE_SPACING),
                   (vpc_y + (2 * PADDING)) + (total_subnets(azs) * LINE_BUNDLE_SPACING),
                   X_DIRECTION, LINE_BUNDLE_SPACING, UNSET)

\* VpcResource.render_xml: the column of route tables, and the set-up of
\* the loop over the zones.  When a route table raises, the pass ends.
VpcRenderRts ==
    /\ pc = "nacls"
    /\ LET rt_x == frame.vpc_x + (PADDING \div 2)
           rt_y == frame.vpc_y + RESOURCE_DISTRIBUTION + PADDING
           drawn == Rt_render_loop(sort_rt_resources(az_list, nacl_list, rt_list),
                                   rt_list, rt_x, rt_y)
       IN  /\ cells' = cells \o drawn.cells
           /\ pc' = IF drawn.raised THEN "raised" ELSE "azs"
           /\ frame' = [step |-> "azs", vpc_x |-> frame.vpc_x, vpc_y |-> frame.vpc_y,
                        vpc_width |-> frame.vpc_width, vpc_height |-> frame.vpc_height,
                        az_x |-> frame.vpc_x + RESOURCE_DISTRIBUTION,
                        az_y |-> frame.vpc_y + RESOURCE_DISTRIBUTION,
                        dimensions |-> frame.dimensions,
                        lists |-> frame.lists \o
                            Rt_lists(sort_rt_resources(az_list, nacl_list, rt_list),
                                     rt_list, rt_y),
                        small_az_width |-> (frame.vpc_width - (7 * PADDING)) \div 2,
                        right |-> FALSE,
                        nacl_route_generator |->
                            nacl_route_generator(frame.vpc_x, frame.vpc_y,
                                                 frame.vpc_width, az_list),
                        nacl_routes |-> <<>>,
                        next |-> 1]
    /\ UNCHANGED <<treeVars, col_loop, dims_call, rgVars, rtVars, sideVars>>

\* VpcResource.render_xml: one turn of the loop over the zones, with the
\* AZResource.render_xml call it makes.
VpcRenderAz ==
    /\ pc = "azs"
    /\ frame.next <= Len(az_list)
    /\ LET z == frame.next
           placed == place_az(frame, az_list[z])
           drawn == AZ_render_xml(placed.az, z, placed.x, placed.y, nacl_list, sub_cols)
           issued == AZ_connections(drawn, placed.az,
                                    [rg |-> frame.nacl_route_generator,
                                     routes |-> frame.nacl_routes])
       IN  /\ az_list' = [az_list EXCEPT ![z] = placed.az]
           /\ cells' = cells \o drawn
           /\ frame' = [frame EXCEPT !.az_y = placed.az_y,
                                     !.right = placed.right,
                                     !.nacl_route_generator = issued.rg,
                                     !.nacl_routes = issued.routes,
                                     !.next = z + 1]
    /\ UNCHANGED <<pc, sub_cols, omit, nacl_association_data, nacl_list, rt_list, n_external>>
    /\ UNCHANGED <<col_loop, dims_call, rgVars, rtVars, sideVars>>

\* visualize_vpc after region.render_xml has returned: the network is sized
\* once more and the peerings, gateways and endpoints are drawn beside it.
RenderExternal ==
    /\ pc = "azs"
    /\ frame.next > Len(az_list)
    /\ pc' = "done"
    /\ LET vpc == Vpc_get_dimensions(az_list, nacl_list, rt_list)
           peering_x == VPC_GUTTER_DIM + (PADDING \div 2) + vpc.dims[1]
           peering_y == VPC_GUTTER_DIM + PADDING + RESOURCE_DISTRIBUTION
       IN  /\ az_list' = vpc.az_list
           /\ cells' = cells \o
                  [k \in 1 .. n_external |->
                      Cell("external", 0, 0, k, peering_x,
                           peering_y + (k - 1) * RESOURCE_DISTRIBUTION, 50, 50)]
    /\ UNCHANGED <<sub_cols, omit, nacl_association_data, nacl_list, rt_list, n_external>>
    /\ UNCHANGED <<col_loop, frame, dims_call, rgVars, rtVars, sideVars>>

Init == InitLayout

Next ==
    \/ AddAz
    \/ AddSubnet
    \/ AddNacl
    \/ AddRt
    \/ AddExternal
    \/ Assemble
    \/ RenderAccount
    \/ RenderRegion
    \/ VpcRenderNacls
    \/ VpcRenderRts
    \/ VpcRenderAz
    \/ RenderExternal

Spec == Init /\ [][Next]_vars

(***************************************************************************)
(* The layout pass over two subnets and the ACLs associated with them      *)
(* (SpecAlign).                                                            *)
(***************************************************************************)
AlignZoneCounts == {1, 2}
AlignAclCounts == {1, 2, 3}

\* The subnets read for zone z, in reading order.
ZoneSubnets(subs, z) ==
    LET picked == SelectSeq(subs, LAMBDA r : r.zone = z)
    IN  [i \in DOMAIN picked |-> SubnetResource(picked[i].name, 0)]

\* nacl_association_data after the first j ACLs were read: every ACL
\* appends one entry per subnet it is associated with.
RECURSIVE AclAssociations(_, _)
AclAssociations(refs, j) ==
    IF j = 0 THEN <<>>
    ELSE AclAssociations(refs, j - 1) \o
         [i \in 1 .. Cardinality(refs[j]) |-> <<RefList(refs[j])[i], j>>]

\* visualize_vpc has read two subnets, in one zone or two, and up to three
\* ACLs, each associated with any of the subnets; --all is given.
InitAlign ==
    /\ pc = "build"
    /\ sub_cols \in SubColsChoices
    /\ omit = FALSE
    /\ \E nz \in AlignZoneCounts :
        \E subs \in [1 .. 2 -> [zone : 1 .. nz, name : SubnetNames]] :
            az_list = [z \in 1 .. nz |->
                        [AZResource EXCEPT !.subnets = ZoneSubnets(subs, z)]]
    /\ \E na \in AlignAclCounts :
        \E refs \in [1 .. na -> SUBSET SubnetRefs] :
            /\ nacl_list = [j \in 1 .. na |-> NAclResource]
            /\ nacl_association_data = AclAssociations(refs, na)
    /\ rt_list = <<>>
    /\ n_external = 0
    /\ col_loop = NoLoop
    /\ frame = NoFrame
    /\ cells = <<>>
    /\ dims_call = NoCall
    /\ NoRouteGroup
    /\ NoRouteTable
    /\ NoSide

NextAlign ==
    \/ Assemble
    \/ RenderAccount
    \/ RenderRegion
    \/ VpcRenderNacls
    \/ VpcRenderRts
    \/ VpcRenderAz
    \/ RenderExternal

SpecAlign == InitAlign /\ [][NextAlign]_vars

(***************************************************************************)
(* The layout pass over a list of zones, empty or not (SpecZones).         *)
(***************************************************************************)
ZoneSubnetCounts == {0, 1, 2}       \* subnets in one zone
ZonesAclCounts == 0 .. 4            \* ACLs of the network, none associated

\* A zone with n subnets named 1 .. n, none with a NAT device.
ZoneOf(n) == [AZResource EXCEPT !.subnets = [s \in 1 .. n |-> SubnetResource(s, 0)]]

\* visualize_vpc has read up to MaxZones zones with their subnets and some
\* ACLs without associations; --all is given.
InitZones ==
    /\ pc = "build"
    /\ sub_cols \in SubColsChoices
    /\ omit = FALSE
    /\ \E nz \in 0 .. MaxZones :
        \E counts \in [1 .. nz -> ZoneSubnetCounts] :
            az_list = [z \in 1 .. nz |-> ZoneOf(counts[z])]
    /\ \E na \in ZonesAclCounts : nacl_list = [j \in 1 .. na |-> NAclResource]
    /\ nacl_association_data = <<>>
    /\ rt_list = <<>>
    /\ n_external = 0
    /\ col_loop = NoLoop
    /\ frame = NoFrame
    /\ cells = <<>>
    /\ dims_call = NoCall
    /\ NoRouteGroup
    /\ NoRouteTable
    /\ NoSide

NextZones ==
    \/ Assemble
    \/ RenderAccount
    \/ RenderRegion
    \/ VpcRenderNacls
    \/ VpcRenderRts
    \/ VpcRenderAz
    \/ RenderExternal

SpecZones == InitZones /\ [][NextZones]_vars

(***************************************************************************)
(* The pass over the subnets of one ACL, for the bundle of ACL connections *)
(* (SpecBends).                                                            *)
(***************************************************************************)
BendsZoneCounts == {1, 2}

\* The first k subnets of the network, in reading order.
FirstRefs(azs, k) ==
    {r \in UNION {{<<z, s>> : s \in DOMAIN azs[z].subnets} : z \in DOMAIN azs} :
        Sum([z \in 1 .. r[1] - 1 |-> Len(azs[z].subnets)]) + r[2] <= k}

\* visualize_vpc has read up to MaxSubnets subnets in one zone or two and
\* one ACL, associated with the first k of them; --all is given.
InitBends ==
    /\ pc = "build"
    /\ sub_cols \in SubColsChoices
    /\ omit = FALSE
    /\ \E nz \in BendsZoneCounts, total \in 0 .. MaxSubnets :
        \E first \in (IF nz = 1 THEN {total} ELSE 0 .. total), k \in 0 .. total :
            LET azs == [z \in 1 .. nz |->
                            ZoneOf(IF z = 1 THEN first ELSE total - first)]
            IN  /\ az_list = azs
                /\ nacl_association_data =
                        [i \in 1 .. k |-> <<RefList(FirstRefs(azs, k))[i], 1>>]
    /\ nacl_list = <<NAclResource>>
    /\ rt_list = <<>>
    /\ n_external = 0
    /\ col_loop = NoLoop
    /\ frame = NoFrame
    /\ cells = <<>>
    /\ dims_call = NoCall
    /\ NoRouteGroup
    /\ NoRouteTable
    /\ NoSide

NextBends ==
    \/ Assemble
    \/ RenderAccount
    \/ RenderRegion
    \/ VpcRenderNacls
    \/ VpcRenderRts
    \/ VpcRenderAz
    \/ RenderExternal

SpecBends == InitBends /\ [][NextBends]_vars

(***************************************************************************)
(* The pass over ACLs with many rules and route tables with routes, for    *)
(* the lists drawn beside the network (SpecLists).                         *)
(***************************************************************************)
ListAclCounts == {1, 2}
ListRuleCounts == {0, 2, 34, 35}    \* rules of one ACL, both directions
ListRtCounts == {0, 1, 2}
ListRouteCounts == {0, 1, 6}        \* routes of one table

\* visualize_vpc has read one zone with one subnet, ACLs with their rules and
\* route tables with their routes; --all is given.
InitLists ==
    /\ pc = "build"
    /\ sub_cols \in SubColsChoices
    /\ omit = FALSE
    /\ az_list = <<ZoneOf(1)>>
    /\ \E na \in ListAclCounts :
        \E rules \in [1 .. na -> ListRuleCounts] :
            nacl_list = [j \in 1 .. na |-> [NAclResource EXCEPT !.rules = rules[j]]]
    /\ nacl_association_data = <<>>
    /\ \E nrt \in ListRtCounts :
        \E n_routes \in [1 .. nrt -> ListRouteCounts] :
            rt_list = [j \in 1 .. nrt |-> RouteTableResource(n_routes[j], NO_AZ)]
    /\ n_external = 0
    /\ col_loop = NoLoop
    /\ frame = NoFrame
    /\ cells = <<>>
    /\ dims_call = NoCall
    /\ NoRouteGroup
    /\ NoRouteTable
    /\ NoSide

NextLists ==
    \/ Assemble
    \/ RenderAccount
    \/ RenderRegion
    \/ VpcRenderNacls
    \/ VpcRenderRts
    \/ VpcRenderAz
    \/ RenderExternal

SpecLists == InitLists /\ [][NextLists]_vars

(***************************************************************************)
(* Ordering the route tables by their zone (SpecRtSort).                   *)
(***************************************************************************)
\* rt_subnet_az = "": the association names a subnet that was not registered.
\* A zone is written as its position in az_list, NO_AZ as 0.
UNKNOWN_AZ == -1

RtZoneCounts == {2, 3}              \* zones of the region

\* What register_rt_association can record for a network of nz zones.
Affinities(nz) == (1 .. nz) \cup {UNKNOWN_AZ}

SeqsUpTo(S, n) == UNION {[1 .. k -> S] : k \in 0 .. n}

Count(seq, v) == Cardinality({i \in DOMAIN seq : seq[i] = v})

\* RouteTableResource.get_suggested_az: max(set(l), key=l.count) returns the
\* first most frequent element in the iteration order of the set, which the
\* language leaves open, so every most frequent element is a possible result.
get_suggested_az(az_connections) ==
    IF az_connections = <<>> THEN {NO_AZ}
    ELSE {v \in {az_connections[i] : i \in DOMAIN az_connections} :
            \A u \in {az_connections[i] : i \in DOMAIN az_connections} :
                Count(az_connections, v) >= Count(az_connections, u)}

\* az_sorting_list.index(...) inside the cmp of sort_rt_resources raises
\* ValueError for a value that is neither a zone id nor NO_AZ.  sorted calls
\* cmp on every element as soon as there are two.
index_raises(azs, nacls, rts) ==
    /\ ~check_empty(azs, nacls, rts)
    /\ Len(rts) >= 2
    /\ \E j \in DOMAIN rts : rts[j].az = UNKNOWN_AZ

\* The zones, subnets and associations read for the tables so far.
RtSortWeight == Len(rt_az_connections) +
                Sum([j \in DOMAIN rt_az_connections |-> Len(rt_az_connections[j])])

InitRtSort ==
    /\ pc = "rt_read"
    /\ sub_cols = 0
    /\ omit \in BOOLEAN
    /\ \E nz \in RtZoneCounts :
        az_list = [z \in 1 .. nz |->
                    [AZResource EXCEPT !.subnets = <<SubnetResource(1, 0)>>]]
    /\ nacl_association_data = <<>>
    /\ nacl_list = <<>>
    /\ rt_list = <<>>
    /\ n_external = 0
    /\ col_loop = NoLoop
    /\ frame = NoFrame
    /\ cells = <<>>
    /\ dims_call = NoCall
    /\ rt_az_connections = <<>>
    /\ rt_sort = NoRtSort
    /\ NoRouteGroup
    /\ NoRouteTable
    /\ NoAcl
    /\ NoFlowLogs
    /\ NoLinks

\* visualize_vpc: one route table of describe_route_tables, with the
\* register_rt_association call of each of its subnet associations; the
\* table is kept if it has one or OMIT_NON_ASSOCIATED_RESOURCES is off.
ReadRouteTable ==
    /\ pc = "rt_read"
    /\ RtSortWeight < MaxAssociations
    /\ \E az_connections \in
            SeqsUpTo(Affinities(Len(az_list)), MaxAssociations - RtSortWeight - 1) :
        /\ az_connections # <<>> \/ ~omit
        /\ rt_az_connections' = Append(rt_az_connections, az_connections)
    /\ UNCHANGED <<pc, rt_sort, treeVars, col_loop, frame, cells, dims_call, rgVars, rtVars,
                   aclVars, flowVars, linkVars>>

\* VpcResource.sort_rt_resources on the tables read
SortRtResources ==
    /\ pc = "rt_read"
    /\ \E suggested \in [DOMAIN rt_az_connections -> Affinities(Len(az_list)) \cup {NO_AZ}] :
        /\ \A j \in DOMAIN rt_az_connections :
                suggested[j] \in get_suggested_az(rt_az_connections[j])
        /\ LET rts == [j \in DOMAIN rt_az_connections |->
                            RouteTableResource(0, suggested[j])]
               raised == index_raises(az_list, nacl_list, rts)
           IN  rt_sort' = [called |-> TRUE,
                           raised |-> raised,
                           suggested |-> suggested,
                           result |-> IF raised THEN <<>>
                                      ELSE sort_rt_resources(az_list, nacl_list, rts)]
    /\ pc' = "rt_sorted"
    /\ UNCHANGED <<rt_az_connections, treeVars, col_loop, frame, cells, dims_call, rgVars,
                   rtVars, aclVars, flowVars, linkVars>>

\* A second layout pass over the same tables: sort_rt_resources is called
\* again.  The iteration order of set(az_connections) follows the hashes of
\* the zone names, which the interpreter may seed anew for every run, so the
\* second pass makes its own choice among the most frequent zones.
SortRtResourcesAgain ==
    /\ pc = "rt_sorted"
    /\ \E suggested \in [DOMAIN rt_az_connections -> Affinities(Len(az_list)) \cup {NO_AZ}] :
        /\ \A j \in DOMAIN rt_az_connections :
                suggested[j] \in get_suggested_az(rt_az_connections[j])
        /\ LET rts == [j \in DOMAIN rt_az_connections |->
                            RouteTableResource(0, suggested[j])]
               raised == index_raises(az_list, nacl_list, rts)
           IN  rt_sort' = [called |-> TRUE,
                           raised |-> raised,
                           suggested |-> suggested,
                           result |-> IF raised THEN <<>>
                                      ELSE sort_rt_resources(az_list, nacl_list, rts),
                           first |-> rt_sort]
    /\ pc' = "rt_sorted_again"
    /\ UNCHANGED <<rt_az_connections, treeVars, col_loop, frame, cells, dims_call, rgVars,
                   rtVars, aclVars, flowVars, linkVars>>

NextRtSort == ReadRouteTable \/ SortRtResources \/ SortRtResourcesAgain

SpecRtSort == InitRtSort /\ [][NextRtSort]_vars

(***************************************************************************)
(* One ACL and the rows of its side list (SpecAcl).                        *)
(***************************************************************************)
HORIZONTAL_LINE == <<"horiz_line">>

RuleNumbers == {100, 200, 32767}    \* RuleNumber of an entry: an integer
Protocols == {"6"}

\* A mutant of sorted_rules: the rules stay in the order they were added.
sorted_rules_as_added(rules) == rules

\* sorted(rules, key=lambda rule: rule[0]): stable, ascending in rule number
sorted_rules(rules) ==
    LET order == sorted_key([i \in DOMAIN rules |-> rules[i][1]])
    IN  [k \in DOMAIN rules |-> rules[order[k]]]

\* DiagramList.render_xml: the loop over self.list.  Each entry is drawn one
\* line below the one before; an entry equal to HORIZONTAL_LINE is drawn as
\* a line, any other as one text cell per field.
DiagramList_rows(list) ==
    [k \in DOMAIN list |->
        [line |-> list[k] = HORIZONTAL_LINE,
         entry |-> list[k],
         y_offset |-> DIAGRAM_LINE_HEIGHT * k]]

\* NAclResource.render_xml: the list handed to DiagramList and its rows
NAcl_render_rows(egress, ingress) ==
    LET sorted_rules_egress ==
            (sorted_rules(egress) \o <<HORIZONTAL_LINE>>) \o sorted_rules(ingress)
    IN  IF Len(sorted_rules_egress) > 0 THEN DiagramList_rows(sorted_rules_egress)
        ELSE <<>>

InitAcl ==
    /\ rules_egress = <<>>
    /\ rules_ingress = <<>>
    /\ nacl_rows = NotRendered
    /\ NoRouteGroup
    /\ NoRouteTable
    /\ NoLayout
    /\ NoLinks
    /\ NoRouteTableSort
    /\ NoFlowLogs

\* NAclResource.add_rule; cidr_block and rule_action are left out of the tuple
AddRule ==
    /\ ~nacl_rows.called
    /\ Len(rules_egress) + Len(rules_ingress) < MaxRules
    /\ \E rule_number \in RuleNumbers, protocol \in Protocols, egress \in BOOLEAN :
        IF egress
        THEN /\ rules_egress' = Append(rules_egress, <<rule_number, protocol, egress>>)
             /\ UNCHANGED rules_ingress
        ELSE /\ rules_ingress' = Append(rules_ingress, <<rule_number, protocol, egress>>)
             /\ UNCHANGED rules_egress
    /\ UNCHANGED <<nacl_rows, rgVars, rtVars, layoutVars, rtSortVars, flowVars, linkVars>>

\* NAclResource.render_xml
NAclRenderXml ==
    /\ ~nacl_rows.called
    /\ nacl_rows' = [called |-> TRUE, rows |-> NAcl_render_rows(rules_egress, rules_ingress)]
    /\ UNCHANGED <<rules_egress, rules_ingress, rgVars, rtVars, layoutVars, rtSortVars,
                   flowVars, linkVars>>

NextAcl == AddRule \/ NAclRenderXml

SpecAcl == InitAcl /\ [][NextAcl]_vars

(***************************************************************************)
(* The flow logs of the network and the cells drawn for them               *)
(* (SpecFlowLogs).                                                         *)
(***************************************************************************)
FlowLogNames == {"", "a", "b"}      \* name_from_tags: "" without a Name tag

\* FlowLogId of the i-th flow log read: the service gives each its own.
FlowLogId(i) == "fl-" \o ToString(i)

\* FlowLogsResource.__init__
FlowLogsResource(id, name) == [id |-> id, name |-> name]

\* DiagramObject.render_xml: the cell's id is the object's id
DiagramObject_id(id) == [kind |-> "object", text |-> id, y |-> 0]

\* insert_text: id="text-{}_{}".format(text, y)
insert_text_id(text, y) == [kind |-> "text", text |-> text, y |-> y]

\* FlowLogsResource.render_xml: the ids of the cells it emits
FlowLogs_render_xml(fl, x, y) ==
    <<DiagramObject_id(fl.id),
      insert_text_id(fl.name, y),
      insert_text_id(fl.id, y + DIAGRAM_LINE_HEIGHT)>>

InitFlowLogs ==
    /\ flow_logs = <<>>
    /\ fl_loop = NoFlLoop
    /\ doc_ids = <<>>
    /\ NoRouteGroup
    /\ NoRouteTable
    /\ NoLayout
    /\ NoLinks
    /\ NoRouteTableSort
    /\ NoAcl

\* visualize_vpc: flow_logs_resources.append(FlowLogsResource(...))
ReadFlowLog ==
    /\ fl_loop = NoFlLoop
    /\ Len(flow_logs) < MaxFlowLogs
    /\ \E name \in FlowLogNames :
        flow_logs' = Append(flow_logs,
                            FlowLogsResource(FlowLogId(Len(flow_logs) + 1), name))
    /\ UNCHANGED <<fl_loop, doc_ids, rgVars, rtVars, layoutVars, rtSortVars, aclVars, linkVars>>

\* fl_x = VPC_GUTTER_DIM + RESOURCE_DISTRIBUTION + PADDING
FlowLogsBegin ==
    /\ fl_loop = NoFlLoop
    /\ fl_loop' = [i |-> 1, fl_x |-> VPC_GUTTER_DIM + RESOURCE_DISTRIBUTION + PADDING]
    /\ UNCHANGED <<flow_logs, doc_ids, rgVars, rtVars, layoutVars, rtSortVars, aclVars, linkVars>>

\* One turn of the loop: fl.render_xml(xml_root, fl_x, fl_y), with
\* fl_y = VPC_GUTTER_DIM + PADDING - 30 for every flow log.
RenderFlowLog ==
    /\ fl_loop.i >= 1
    /\ fl_loop.i <= Len(flow_logs)
    /\ LET fl_y == VPC_GUTTER_DIM + PADDING - 30
       IN  doc_ids' = doc_ids \o FlowLogs_render_xml(flow_logs[fl_loop.i], fl_loop.fl_x, fl_y)
    /\ fl_loop' = [i |-> fl_loop.i + 1, fl_x |-> fl_loop.fl_x + RESOURCE_DISTRIBUTION]
    /\ UNCHANGED <<flow_logs, rgVars, rtVars, layoutVars, rtSortVars, aclVars, linkVars>>

NextFlowLogs == ReadFlowLog \/ FlowLogsBegin \/ RenderFlowLog

SpecFlowLogs == InitFlowLogs /\ [][NextFlowLogs]_vars

(***************************************************************************)
(* The edges of route tables and of the endpoint, and the cells they are   *)
(* drawn between (SpecLinks).                                              *)
(***************************************************************************)
\* A cell id: the id of a resource, "{id}_container" or "{id}_list".
CellId(kind, n, part) == [kind |-> kind, n |-> n, part |-> part]

\* if_in(route, 'GatewayId', 'NetworkInterfaceId', 'VpcPeeringConnectionId'):
\* 'local', an internet gateway of the network, a network interface, or ""
\* when the route has none of the keys.
LOCAL_GW == CellId("local", 0, "")
NO_GW == CellId("", 0, "")
IGW == CellId("igw", 1, "")
ENI == CellId("eni", 1, "")

\* The gateway ids of the routes of one table, in add_route order.
GatewayLists ==
    {<<>>, <<LOCAL_GW>>, <<IGW>>, <<NO_GW>>, <<ENI>>,
     <<LOCAL_GW, IGW>>, <<LOCAL_GW, LOCAL_GW>>}

LinkTableCounts == {0, 1, 2}

\* visualize_vpc has the answers of describe_route_tables and
\* describe_vpc_endpoints: every table with or without a subnet association
\* and with its routes, one gateway endpoint naming some of the tables.
InitLinks ==
    /\ \E n \in LinkTableCounts :
        \E tables \in [1 .. n -> [associated : BOOLEAN, gws : GatewayLists]],
           vpce \in SUBSET (1 .. n),
           rt_connections \in BOOLEAN, omit_unassociated \in BOOLEAN :
            wiring = [tables |-> tables,
                      vpce |-> vpce,
                      ADD_ROUTE_TABLE_CONNECTIONS |-> rt_connections,
                      OMIT_NON_ASSOCIATED_RESOURCES |-> omit_unassociated]
    /\ link_doc = [step |-> "read", rt_resources |-> <<>>, next |-> 0,
                   ids |-> {}, edges |-> {}]
    /\ NoRouteGroup
    /\ NoRouteTable
    /\ NoLayout
    /\ NoRouteTableSort
    /\ NoAcl
    /\ NoFlowLogs

\* visualize_vpc: "add if associated or set to add resources without
\* associations"; the tables kept, by their position in the answer.
kept_rt_resources(w) ==
    SelectSeq([j \in DOMAIN w.tables |-> j],
              LAMBDA j : w.tables[j].associated \/ ~w.OMIT_NON_ASSOCIATED_RESOURCES)

KeepRouteTables ==
    /\ link_doc.step = "read"
    /\ link_doc' = [link_doc EXCEPT !.step = "rts",
                                    !.rt_resources = kept_rt_resources(wiring),
                                    !.next = 1]
    /\ UNCHANGED <<wiring, rgVars, rtVars, layoutVars, rtSortVars, aclVars, flowVars>>

\* render_xml_connection: the edge from a cell to the id it is given.
Edge(source, target) == [source |-> source, target |-> target]

\* RouteTableResource.render_xml: what one call adds to the document.
\* raised: the table has no routes and "return resource_height" fails.
RouteTable_render_xml(j, t, rt_connections) ==
    LET rt == CellId("rtb", j, "")
        list == CellId("rtb", j, "list")
    IN  [ids |-> {rt} \cup (IF Len(t.gws) > 0 THEN {list} ELSE {}),
         edges |->
            (IF t.associated THEN {Edge(rt, CellId("subnet", 1, "container"))} ELSE {})
            \cup (IF Len(t.gws) > 0 /\ rt_connections
                  THEN {Edge(list, t.gws[r]) : r \in DOMAIN t.gws} ELSE {})
            \cup {Edge(rt, list)},
         raised |-> Len(t.gws) = 0]

\* VpcResource.render_xml: the loop over the sorted route tables.
RtRenderXml ==
    /\ link_doc.step = "rts"
    /\ link_doc.next <= Len(link_doc.rt_resources)
    /\ LET j == link_doc.rt_resources[link_doc.next]
           drawn == RouteTable_render_xml(j, wiring.tables[j],
                                          wiring.ADD_ROUTE_TABLE_CONNECTIONS)
       IN  link_doc' = [link_doc EXCEPT
                            !.step = IF drawn.raised THEN "raised" ELSE "rts",
                            !.next = IF drawn.raised THEN @ ELSE @ + 1,
                            !.ids = @ \cup drawn.ids,
                            !.edges = @ \cup drawn.edges]
    /\ UNCHANGED <<wiring, rgVars, rtVars, layoutVars, rtSortVars, aclVars, flowVars>>

\* SubnetResource.render_xml: the container and the icon of the subnet.
SubnetRenderXml ==
    /\ link_doc.step = "rts"
    /\ link_doc.next > Len(link_doc.rt_resources)
    /\ link_doc' = [link_doc EXCEPT
                        !.step = "subnets",
                        !.ids = @ \cup {CellId("subnet", 1, "container"),
                                        CellId("subnet", 1, "")}]
    /\ UNCHANGED <<wiring, rgVars, rtVars, layoutVars, rtSortVars, aclVars, flowVars>>

\* IgwResource.render_xml: the internet gateway beside the network.
IgwRenderXml ==
    /\ link_doc.step = "subnets"
    /\ link_doc' = [link_doc EXCEPT !.step = "gateways", !.ids = @ \cup {IGW}]
    /\ UNCHANGED <<wiring, rgVars, rtVars, layoutVars, rtSortVars, aclVars, flowVars>>

\* VpcEndpointResource.render_xml: the endpoint and one edge to every id in
\* its rt_associations.
VpcEndpointRenderXml ==
    /\ link_doc.step = "gateways"
    /\ link_doc' = [link_doc EXCEPT
                        !.step = "done",
                        !.ids = @ \cup {CellId("vpce", 1, "")},
                        !.edges = @ \cup {Edge(CellId("vpce", 1, ""), CellId("rtb", j, "")) :
                                            j \in wiring.vpce}]
    /\ UNCHANGED <<wiring, rgVars, rtVars, layoutVars, rtSortVars, aclVars, flowVars>>

NextLinks ==
    \/ KeepRouteTables
    \/ RtRenderXml
    \/ SubnetRenderXml
    \/ IgwRenderXml
    \/ VpcEndpointRenderXml

SpecLinks == InitLinks /\ [][NextLinks]_vars

(***************************************************************************)
(* Claims about RouteGroup (checked under SpecRG).                         *)
(***************************************************************************)
Set(v) == v # UNSET

\* C4: for a generator of axis X with spacing s > 0 and a set starting x
\* coordinate x0, the stacked x of the first waypoint of the i-th call is
\* x0 + (i-1)*s.
C4_StaggerByS ==
    (/\ rg_args.direction = X_DIRECTION
     /\ rg_args.spacing > 0
     /\ Set(rg_args.start_x))
    => \A i \in 1..Len(rg_calls) :
          rg_calls[i].route[1][1] = rg_args.start_x + (i - 1) * rg_args.spacing

C6_RoutesDistinct ==
    ValidAxis(rg) =>
        \A i, j \in 1..Len(rg_calls) :
            (i < j /\ rg_calls[i].origin = rg_calls[j].origin)
            => rg_calls[i].route # rg_calls[j].route

\* C7 as stated: for a generator with a valid axis every call returns 2 or 3
\* waypoints.
C7_TwoOrThree ==
    ValidAxis(rg) =>
        \A i \in 1..Len(rg_calls) : Len(rg_calls[i].route) \in {2, 3}

\* C7 as amended: for a generator with a valid axis every call returns 1 to 3
\* waypoints: one, one more if the coordinate perpendicular to the axis is
\* set, and one more if the break coordinate is set.
C7_OneToThree ==
    ValidAxis(rg) =>
        \A i \in 1..Len(rg_calls) :
            LET b == rg_calls[i].before
                perp == IF b.starting_direction = X_DIRECTION THEN b.current_y ELSE b.current_x
            IN  /\ Len(rg_calls[i].route) \in 1..3
                /\ Len(rg_calls[i].route)
                     = 1 + (IF Set(perp) THEN 1 ELSE 0)
                         + (IF Set(b.additional_break) THEN 1 ELSE 0)

\* A generator with a valid axis has returned a route of a single waypoint.
C7_Witness ==
    /\ ValidAxis(rg)
    /\ \E i \in 1..Len(rg_calls) : Len(rg_calls[i].route) = 1

\* C8: a generator constructed with an axis that is neither X nor Y exists
\* (construction did not fail) and every call on it returns no waypoints.
C8_BadAxisNoWaypoints ==
    ~ValidAxis(rg) =>
        /\ rg.starting_direction = rg_args.direction
        /\ \A i \in 1..Len(rg_calls) : rg_calls[i].route = <<>>

\* A generator with a bad axis has answered every call the bound allows.
C8_Witness ==
    /\ ~ValidAxis(rg)
    /\ Len(rg_calls) = MaxCalls

(***************************************************************************)
(* Claims about sort_routes (checked under SpecRoutes).                    *)
(***************************************************************************)
\* The number a segment starts with: its leading digits, as an integer.
RECURSIVE LeadingDigits(_)
LeadingDigits(seg) ==
    IF seg = <<>> \/ Head(seg) \notin Digits THEN <<>>
    ELSE <<Head(seg)>> \o LeadingDigits(Tail(seg))

\* A destination of the form a.b.c.d/m, and its four octets as integers.
IsCidr(dest) ==
    /\ Len(split(dest)) = 4
    /\ \A k \in 1..4 : LeadingDigits(split(dest)[k]) # <<>>

Octets(dest) == [k \in 1..4 |-> DigitsValue(LeadingDigits(split(dest)[k]), 0)]

\* Segment by segment as integers: the first differing octet is smaller.
OctetsLess(a, b) ==
    \E k \in 1..4 : a[k] < b[k] /\ \A m \in 1..(k - 1) : a[m] = b[m]

IsLocal(route) == route[3] = "local"

CountOf(lst, e) == Cardinality({k \in 1..Len(lst) : lst[k] = e})

LocalsFirst(lst) ==
    \A i, j \in 1..Len(lst) : (i < j /\ IsLocal(lst[j])) => IsLocal(lst[i])

NonLocalsAscending(lst) ==
    \A i, j \in 1..Len(lst) :
        (/\ i < j
         /\ ~IsLocal(lst[i]) /\ ~IsLocal(lst[j])
         /\ IsCidr(lst[i][1]) /\ IsCidr(lst[j][1]))
        => ~OctetsLess(Octets(lst[j][1]), Octets(lst[i][1]))

SameRoutes(lst, of) ==
    /\ Len(lst) = Len(of)
    /\ \A k \in 1..Len(of) : CountOf(lst, of[k]) = CountOf(of, of[k])

\* C9: sort_routes returns the table's routes with every local route before
\* every non-local one and the non-local ones in ascending order of
\* destination CIDR, compared segment by segment as integers.
C9_LocalFirstThenAscending ==
    sorted_routes.called =>
        /\ SameRoutes(sorted_routes.result, routes)
        /\ LocalsFirst(sorted_routes.result)
        /\ NonLocalsAscending(sorted_routes.result)


(***************************************************************************)
(* Claims about placement (checked under Spec).                            *)
(***************************************************************************)
\* Two rectangles share a point of their interiors.
Overlap(a, b) ==
    /\ a.x < b.x + b.w
    /\ b.x < a.x + a.w
    /\ a.y < b.y + b.h
    /\ b.y < a.y + a.h

\* Two cells placed by the same container: two zones of the network, or
\* two subnets of one zone.
Siblings(a, b) ==
    \/ a.kind = "az" /\ b.kind = "az"
    \/ a.kind = "subnet" /\ b.kind = "subnet" /\ a.z = b.z

\* C1: the rectangles of the children one container places never overlap:
\* no two subnets of a zone and no two zones of the network, whether the
\* zones are empty or not and in whatever order they come.
C1_NoSiblingOverlap ==
    \A i \in DOMAIN cells : \A j \in DOMAIN cells :
        (i < j /\ Siblings(cells[i], cells[j])) => ~Overlap(cells[i], cells[j])

\* C1 happens: the pass has finished on a network in which a zone with two
\* subnets sits between two empty zones.
C1_Witness ==
    /\ pc = "done"
    /\ \E z \in DOMAIN az_list :
          /\ z + 2 \in DOMAIN az_list
          /\ empty(az_list[z])
          /\ Len(az_list[z + 1].subnets) >= 2
          /\ empty(az_list[z + 2])
    /\ Cardinality({i \in DOMAIN cells : cells[i].kind = "az"}) = Len(az_list)

\* The cell c is drawn as a child of the cell p.
ChildOf(c, p) ==
    \/ p.kind = "account" /\ c.kind = "region"
    \/ p.kind = "region" /\ c.kind = "vpc"
    \/ p.kind = "vpc" /\ c.kind = "az"
    \/ p.kind = "az" /\ c.kind = "subnet" /\ c.z = p.z
    \/ p.kind = "subnet" /\ c.kind = "ng" /\ c.z = p.z /\ c.s = p.s

\* The rectangle c, grown by pad on every side, lies within the rectangle p.
InsideWithPadding(c, p, pad) ==
    /\ p.x + pad <= c.x
    /\ p.y + pad <= c.y
    /\ c.x + c.w + pad <= p.x + p.w
    /\ c.y + c.h + pad <= p.y + p.h

\* C2: every container's rectangle contains the rectangle of each of its
\* children grown by the padding on every side, at every level: the region
\* in the account, the network in the region, the zones in the network, the
\* subnets in their zone and the NAT devices in their subnet.
C2_PaddedContainment ==
    \A i \in DOMAIN cells : \A j \in DOMAIN cells :
        ChildOf(cells[j], cells[i]) => InsideWithPadding(cells[j], cells[i], PADDING)

(***************************************************************************)
(* Claims about sizing (checked under SpecSizing).                         *)
(***************************************************************************)
\* C3: a get_dimensions call that directly follows a get_dimensions call on
\* the same container returns the size the first one returned.
C3_SizingTwiceSame ==
    (dims_call.made /\ dims_call.again) => dims_call.dims = dims_call.before

\* C3 happens: the network has been sized twice in a row, its ACLs need more
\* width than its zones, and a zone with a subnet carries the forced width.
C3_Witness ==
    /\ dims_call.made
    /\ dims_call.again
    /\ dims_call.target.kind = "vpc"
    /\ \E z \in DOMAIN az_list :
          /\ ~empty(az_list[z])
          /\ az_list[z].width_override =
                <<TRUE, Len(nacl_list) * RESOURCE_DISTRIBUTION - PADDING>>

(***************************************************************************)
(* Claims about the column loop (checked under SpecCols).                  *)
(***************************************************************************)
\* The least b with b * N >= n: ceil(n / N) for N >= 1.
BucketSize(n, N) ==
    CHOOSE b \in 0 .. n : b * N >= n /\ \A c \in 0 .. n : c * N >= n => b <= c

\* C10: with n ACLs and N >= 1 columns, the ACL at index i (from 0) gets
\* the column c with c * b <= i < (c + 1) * b, where b = ceil(n / N); seven
\* ACLs in three columns get 0,0,0,1,1,1,2.
C10_ColumnHint ==
    (pc = "cols_loop" /\ sub_cols >= 1) =>
        LET n == Len(nacl_list)
            b == BucketSize(n, sub_cols)
        IN  /\ \A j \in 1 .. col_loop.i :
                  LET c == nacl_list[j].col_suggestion
                  IN  c * b <= j - 1 /\ j - 1 < (c + 1) * b
            /\ (n = 7 /\ sub_cols = 3 /\ col_loop.i = 7) =>
                  [j \in 1 .. 7 |-> nacl_list[j].col_suggestion] = <<0, 0, 0, 1, 1, 1, 2>>

\* C10 happens: the loop has run over seven ACLs with three columns.
C10_Witness ==
    /\ pc = "cols_loop"
    /\ Len(nacl_list) = 7
    /\ sub_cols = 3
    /\ col_loop.i = 7

(***************************************************************************)
(* Claims about the rows of zones (checked under Spec).                    *)
(***************************************************************************)
\* The zone at position z of the zone list has been drawn; its cell.
AzPlaced(z) == \E i \in DOMAIN cells : cells[i].kind = "az" /\ cells[i].z = z
AzCell(z) == cells[CHOOSE i \in DOMAIN cells : cells[i].kind = "az" /\ cells[i].z = z]

\* The position of zone z in its run of consecutive empty zones (0 for a
\* zone with subnets).
RECURSIVE RunPos(_)
RunPos(z) ==
    IF z = 0 THEN 0
    ELSE IF ~empty(az_list[z]) THEN 0
    ELSE 1 + RunPos(z - 1)

\* C11: in a run of consecutive empty zones the 1st, 3rd, ... are drawn at
\* the left edge of the zone column, each on a row below the zones before
\* it, and the 2nd, 4th, ... to the right of their predecessor on the same
\* row.
C11_EmptyZonesTwoPerRow ==
    \A z \in DOMAIN az_list :
        (AzPlaced(z) /\ empty(az_list[z])) =>
            LET k == RunPos(z)
                c == AzCell(z)
            IN  IF k % 2 = 1
                THEN /\ \A y \in DOMAIN az_list : AzPlaced(y) => c.x <= AzCell(y).x
                     /\ \A y \in 1 .. z - 1 : c.y > AzCell(y).y
                ELSE /\ c.x >= AzCell(z - 1).x + AzCell(z - 1).w
                     /\ c.y = AzCell(z - 1).y

\* C11 happens: the pass has drawn a network with a run of three empty zones.
C11_Witness ==
    /\ pc = "done"
    /\ \E z \in DOMAIN az_list :
          /\ z + 2 \in DOMAIN az_list
          /\ RunPos(z) = 1 /\ RunPos(z + 2) = 3
          /\ AzPlaced(z + 2)

\* C12 as stated: an empty zone drawn right after a zone with subnets lies
\* one placeholder height further down than the padding below that zone.
C12_EmptyAfterNonEmptyAdvances ==
    \A z \in DOMAIN az_list :
        (z > 1 /\ AzPlaced(z) /\ empty(az_list[z]) /\ ~empty(az_list[z - 1])) =>
            AzCell(z).y = AzCell(z - 1).y + AzCell(z - 1).h + PADDING + AzCell(z).h

\* C12 amended: an empty zone drawn right after a zone with subnets lies
\* exactly the padding below it; it is a zone with subnets drawn right
\* after a lone left placeholder that is moved down, by SUBNET_MIN_H plus
\* the padding from the placeholder's row.
C12_NonEmptyAfterLoneEmptyAdvances ==
    \A z \in DOMAIN az_list :
        (z > 1 /\ AzPlaced(z)) =>
            /\ (empty(az_list[z]) /\ ~empty(az_list[z - 1])) =>
                  AzCell(z).y = AzCell(z - 1).y + AzCell(z - 1).h + PADDING
            /\ (~empty(az_list[z]) /\ RunPos(z - 1) % 2 = 1) =>
                  AzCell(z).y = AzCell(z - 1).y + SUBNET_MIN_H + PADDING

\* C12 happens: the pass has drawn a zone with subnets, an empty zone after
\* it and a zone with subnets after that.
C12_Witness ==
    /\ pc = "done"
    /\ \E z \in DOMAIN az_list :
          /\ z + 2 \in DOMAIN az_list
          /\ ~empty(az_list[z]) /\ empty(az_list[z + 1]) /\ ~empty(az_list[z + 2])
          /\ AzPlaced(z + 2)

(***************************************************************************)
(* Claims about the order of the route tables (checked under SpecRtSort).  *)
(***************************************************************************)
\* v occurs in the affinities at least as often as every other value.
MostFrequent(az_connections, v) ==
    /\ Count(az_connections, v) >= 1
    /\ \A i \in DOMAIN az_connections :
            Count(az_connections, v) >= Count(az_connections, az_connections[i])

\* The position a table is ordered by: that of the zone voted for, and one
\* past the zone list for a table without subnet associations.
RtZonePosition(j) ==
    IF rt_az_connections[j] = <<>> THEN Len(az_list) + 1 ELSE rt_sort.suggested[j]

\* C13: when sort_rt_resources returns, its result holds every registered
\* route table once, each table with subnet associations is ordered by the
\* position in the zone list of a zone most frequent among them, the result
\* ascends in that position, and every table without subnet associations
\* comes after all tables that have a zone.
C13_RtOrderedByMajorityZone ==
    (pc = "rt_sorted" /\ ~rt_sort.raised) =>
        LET res == rt_sort.result IN
        /\ Len(res) = Len(rt_az_connections)
        /\ {res[a] : a \in DOMAIN res} = DOMAIN rt_az_connections
        /\ \A j \in DOMAIN rt_az_connections :
                rt_az_connections[j] # <<>> =>
                    MostFrequent(rt_az_connections[j], rt_sort.suggested[j])
        /\ \A a, b \in DOMAIN res :
                a < b => RtZonePosition(res[a]) <= RtZonePosition(res[b])
        /\ \A a, b \in DOMAIN res :
                (rt_az_connections[res[a]] = <<>> /\ rt_az_connections[res[b]] # <<>>)
                    => b < a

\* Three tables were sorted: the first read has no associations, the second
\* has two in zone 2, the third one in zone 1.
C13_Witness ==
    /\ pc = "rt_sorted"
    /\ ~rt_sort.raised
    /\ rt_az_connections = << <<>>, <<2, 2>>, <<1>> >>
    /\ rt_sort.result = <<3, 2, 1>>

\* C17: ordering the route tables does not raise, and a table whose voted
\* affinity is the empty one of an unregistered subnet comes after every
\* table that has a zone.
C17_UnknownZoneUnassigned ==
    pc = "rt_sorted" =>
        /\ ~rt_sort.raised
        /\ \A a, b \in DOMAIN rt_sort.result :
                (/\ rt_sort.suggested[rt_sort.result[a]] = UNKNOWN_AZ
                 /\ rt_sort.suggested[rt_sort.result[b]] \in 1 .. Len(az_list))
                    => b < a

(***************************************************************************)
(* Claims about the side list of an ACL (checked under SpecAcl).           *)
(***************************************************************************)
\* The rows from position a to position b.
Rows(a, b) == [k \in 1 .. (b - a + 1) |-> nacl_rows.rows[a + k - 1]]

\* The rows are the given rules, each as often as it was added, in ascending
\* rule number, and no row is a divider.
RowsOfRules(rows, rules) ==
    /\ Len(rows) = Len(rules)
    /\ \A k \in DOMAIN rows : ~rows[k].line
    /\ \A i \in DOMAIN rules :
            Cardinality({k \in DOMAIN rows : rows[k].entry = rules[i]}) =
            Cardinality({j \in DOMAIN rules : rules[j] = rules[i]})
    /\ \A a, b \in DOMAIN rows : a < b => rows[a].entry[1] <= rows[b].entry[1]

\* C14: the rows drawn for an ACL are, from top to bottom, its egress rules
\* in ascending rule number, then one divider, then its ingress rules in
\* ascending rule number, whatever the order the rules were added in and
\* also when a direction has no rule.
C14_AclRows ==
    nacl_rows.called =>
        LET rows == nacl_rows.rows
            ne == Len(rules_egress)
            ni == Len(rules_ingress)
        IN  /\ Len(rows) = ne + 1 + ni
            /\ \A a, b \in DOMAIN rows : a < b => rows[a].y_offset < rows[b].y_offset
            /\ RowsOfRules(Rows(1, ne), rules_egress)
            /\ rows[ne + 1].line
            /\ RowsOfRules(Rows(ne + 2, ne + 1 + ni), rules_ingress)

\* Rules were added in descending number, egress and ingress interleaved,
\* and the list was drawn.
C14_Witness ==
    /\ nacl_rows.called
    /\ rules_egress = << <<200, "6", TRUE>>, <<100, "6", TRUE>> >>
    /\ rules_ingress = << <<32767, "6", FALSE>>, <<100, "6", FALSE>> >>
    /\ nacl_rows.rows[3].line

(***************************************************************************)
(* Claims about the ids of the cells (checked under SpecFlowLogs).         *)
(***************************************************************************)
\* C15: no two cells emitted into the document have the same id.
C15_UniqueIds ==
    \A a, b \in DOMAIN doc_ids : a # b => doc_ids[a] # doc_ids[b]

(***************************************************************************)
(* Claims about a column count below one (checked under SpecCols).         *)
(***************************************************************************)
\* C16: with zero or fewer columns configured, the column loop does not
\* raise and every ACL gets the column hint 0.
C16_NonPositiveColumns ==
    sub_cols <= 0 =>
        /\ pc # "raised"
        /\ \A j \in DOMAIN nacl_list : nacl_list[j].col_suggestion = 0

(***************************************************************************)
(* Claims about what a sizing call changes (checked under SpecSizing).     *)
(***************************************************************************)
\* C18: a get_dimensions call on a subnet, a zone, the network or the region
\* changes no field of any zone, subnet, ACL or route table of the tree.
C18_GetDimensionsReadOnly ==
    [][GetDimensions => UNCHANGED <<az_list, nacl_list, rt_list>>]_vars

(***************************************************************************)
(* Claims about the whole pass (checked under Spec).                       *)
(***************************************************************************)
\* The positions in the document of the cells drawn for one resource.
CellsOf(kind, z, s, k) ==
    {i \in DOMAIN cells :
        cells[i].kind = kind /\ cells[i].z = z /\ cells[i].s = s /\ cells[i].k = k}

\* The resource has exactly one cell, and it follows a cell of its owner.
PlacedOnceAfter(kind, z, s, k, owner) ==
    /\ Cardinality(CellsOf(kind, z, s, k)) = 1
    /\ \A i \in CellsOf(kind, z, s, k) : \E o \in owner : o < i

PassEnded == pc \in {"done", "raised"}

EveryResourcePlacedOnce ==
    /\ \A j \in DOMAIN nacl_list :
            PlacedOnceAfter("nacl", 0, 0, j, CellsOf("vpc", 0, 0, 0))
    /\ \A j \in DOMAIN rt_list :
            PlacedOnceAfter("rt", 0, 0, j, CellsOf("vpc", 0, 0, 0))
    /\ \A z \in DOMAIN az_list :
        /\ PlacedOnceAfter("az", z, 0, 0, CellsOf("vpc", 0, 0, 0))
        /\ \A s \in DOMAIN az_list[z].subnets :
            /\ PlacedOnceAfter("subnet", z, s, 0, CellsOf("az", z, 0, 0))
            /\ \A k \in 1 .. az_list[z].subnets[s].ngs :
                    PlacedOnceAfter("ng", z, s, k, CellsOf("subnet", z, s, 0))

\* C19: when a layout pass has ended, every registered zone, subnet, ACL,
\* route table and NAT device has been placed exactly once, and after the
\* container that owns it.
C19_EveryResourcePlacedOnce == PassEnded => EveryResourcePlacedOnce

(***************************************************************************)
(* Claims about the columns of the subnets (checked under SpecAlign).      *)
(***************************************************************************)
\* The positions in the document of the subnet cells.
SubnetCells == {i \in DOMAIN cells : cells[i].kind = "subnet"}

\* The ACLs associated with the subnet a cell was drawn for, in the order
\* the associations were registered.
AssociationsOf(c) == az_list[c.z].subnets[c.s].associations

SharedAcl(a, b) ==
    \E i \in DOMAIN AssociationsOf(a), j \in DOMAIN AssociationsOf(b) :
        AssociationsOf(a)[i] = AssociationsOf(b)[j]

SameFirstAcl(a, b) ==
    /\ AssociationsOf(a) # <<>>
    /\ AssociationsOf(b) # <<>>
    /\ AssociationsOf(a)[1] = AssociationsOf(b)[1]

\* C20 as stated: two placed subnets that are associated with a common ACL
\* have the same x.
C20_SharedAclSameX ==
    \A i, j \in SubnetCells :
        SharedAcl(cells[i], cells[j]) => cells[i].x = cells[j].x

\* C20: two placed subnets whose first registered association is with the
\* same ACL have the same x, in whichever zones they are and in whatever
\* order they are stacked.
C20_FirstAclSameX ==
    \A i, j \in SubnetCells :
        SameFirstAcl(cells[i], cells[j]) => cells[i].x = cells[j].x

\* Two subnets in different zones share their first ACL, which is in a
\* column other than the first, and both have been placed.
C20_Witness ==
    /\ pc = "done"
    /\ \E i, j \in SubnetCells :
        /\ cells[i].z # cells[j].z
        /\ SameFirstAcl(cells[i], cells[j])
        /\ nacl_list[AssociationsOf(cells[i])[1]].col_suggestion > 0
        /\ cells[i].x = cells[j].x

C22_EmptyRouteTableNoRaise ==
    /\ pc # "raised"
    /\ pc \in {"azs", "done"} =>
            \A j \in DOMAIN rt_list : Cardinality(CellsOf("rt", 0, 0, j)) = 1

(***************************************************************************)
(* Claims about the NAT devices of a subnet (checked under Spec).          *)
(***************************************************************************)
\* C23: every placed NAT device lies, from its top to its bottom edge,
\* between the top and the bottom edge of the box of its own subnet.
C23_NatInsideSubnetHeight ==
    \A i, j \in DOMAIN cells :
        (/\ cells[i].kind = "ng"
         /\ cells[j].kind = "subnet"
         /\ cells[j].z = cells[i].z
         /\ cells[j].s = cells[i].s)
            => /\ cells[j].y <= cells[i].y
               /\ cells[i].y + cells[i].h <= cells[j].y + cells[j].h

(***************************************************************************)
(* Claims about the zones and the network's box (checked under SpecZones). *)
(***************************************************************************)
Bottom(c) == c.y + c.h

\* C24: the bottom edge of every placed zone is at or above the bottom edge
\* of the network's box.
C24_ZonesAboveVpcBottom ==
    \A i, j \in DOMAIN cells :
        (cells[i].kind = "az" /\ cells[j].kind = "vpc")
            => Bottom(cells[i]) <= Bottom(cells[j])

(***************************************************************************)
(* Claims about the column of a subnet inside its zone (checked under      *)
(* Spec).                                                                  *)
(***************************************************************************)
\* C25: once the columns are assigned, every ACL's column hint lies in
\* 0 .. N-1 for N columns, and the right edge of every placed subnet is at
\* or left of the right edge of its zone, with or without a width override.
C25_ColumnInsideZone ==
    /\ pc # "build" =>
            \A j \in DOMAIN nacl_list :
                nacl_list[j].col_suggestion \in 0 .. (sub_cols - 1)
    /\ \A i, j \in DOMAIN cells :
            (/\ cells[i].kind = "subnet"
             /\ cells[j].kind = "az"
             /\ cells[j].z = cells[i].z)
                => /\ cells[j].x <= cells[i].x
                   /\ cells[i].x + cells[i].w <= cells[j].x + cells[j].w

\* A subnet whose ACL has the last of three columns has been placed in a
\* zone whose width was overridden by the row of ACLs.
C25_Witness ==
    /\ sub_cols = 3
    /\ \E i \in DOMAIN cells :
        /\ cells[i].kind = "subnet"
        /\ az_list[cells[i].z].width_override[1]
        /\ az_list[cells[i].z].subnets[cells[i].s].associations # <<>>
        /\ nacl_list[az_list[cells[i].z].subnets[cells[i].s].associations[1]].col_suggestion = 2
        /\ \E j \in DOMAIN cells :
            /\ cells[j].kind = "az"
            /\ cells[j].z = cells[i].z
            /\ cells[i].x > cells[j].x + PADDING


\* ---- C26 ----
\* The bends of every route issued so far by the ACL-connection generator
\* of the pass, as <<route, position, point>>.
NaclBends ==
    IF frame = NoFrame \/ frame.step # "azs" THEN {}
    ELSE UNION {{<<i, j, frame.nacl_routes[i][j]>> : j \in DOMAIN frame.nacl_routes[i]} :
                    i \in DOMAIN frame.nacl_routes}

AtMostOneAssociation ==
    \A z \in DOMAIN az_list : \A s \in DOMAIN az_list[z].subnets :
        Len(az_list[z].subnets[s].associations) <= 1

\* C26: when every subnet has at most one ACL association, every bend of
\* the ACL-connection route group lies strictly left of the network's right
\* edge less the padding and strictly below the network's top plus twice
\* the padding, and no two issued bends are the same point.
C26_NaclBendsDistinct ==
    AtMostOneAssociation =>
        /\ \A b \in NaclBends :
            /\ b[3][1] < frame.vpc_x + frame.vpc_width - PADDING
            /\ b[3][2] > frame.vpc_y + 2 * PADDING
        /\ \A b, c \in NaclBends : b[3] = c[3] => b = c

\* The part of C26 about the region the bends lie in.
C26_NaclBendsRegion ==
    AtMostOneAssociation =>
        \A b \in NaclBends :
            /\ b[3][1] < frame.vpc_x + frame.vpc_width - PADDING
            /\ b[3][2] > frame.vpc_y + 2 * PADDING


\* ---- C27 ----
\* The edges of the document whose source or target is not the id of a cell
\* of the document.
DanglingEdges ==
    {e \in link_doc.edges : e.source \notin link_doc.ids \/ e.target \notin link_doc.ids}

\* C27: when the drawing is over, the source and the target of every edge
\* are ids of cells that were drawn, whatever the routes' gateways are,
\* whether unassociated tables are omitted and whether a table has routes.
C27_NoDanglingEdges ==
    link_doc.step \in {"done", "raised"} => DanglingEdges = {}

\* The same for the documents that are completed.
C27_NoDanglingEdgesWhenDone ==
    link_doc.step = "done" => DanglingEdges = {}


\* ---- C28 ----
\* cmp_cidr as sort_routes applies it to the destinations of two routes.
CmpRoutes(route_one, route_two) == cmp_cidr(split(route_one[1]), split(route_two[1]))

\* C28: cmp_cidr is antisymmetric on the destinations of any two routes of
\* the table: cmp_cidr(a, b) = -cmp_cidr(b, a).
C28_CmpCidrAntisymmetric ==
    \A i, j \in DOMAIN routes :
        CmpRoutes(routes[i], routes[j]) = -CmpRoutes(routes[j], routes[i])


\* ---- C29 ----
\* C29: once the zones are being placed and after the pass, a get_dimensions
\* call on the network returns the width and height it returned when the
\* network's box was drawn.
C29_DimensionsStable ==
    pc \in {"azs", "done"} =>
        Vpc_get_dimensions(az_list, nacl_list, rt_list).dims = frame.dimensions

\* C29 happens: the pass is over on a network with an ACL, a zone with a
\* subnet and an empty zone whose width the placement has overridden.
C29_Witness ==
    /\ pc = "done"
    /\ Len(nacl_list) >= 1
    /\ \E z \in DOMAIN az_list : ~empty(az_list[z])
    /\ \E z \in DOMAIN az_list :
        /\ empty(az_list[z])
        /\ az_list[z].width_override = <<TRUE, frame.small_az_width>>


\* ---- C30 ----
\* The lists drawn beside the network so far.
SideLists == IF pc \in {"nacls", "azs", "done", "raised"} /\ frame # NoFrame
             THEN frame.lists ELSE <<>>

\* C30: no two of the lists drawn beside the network (the rule lists of the
\* ACLs and the route lists of the route tables) overlap.
C30_SideListsDisjoint ==
    \A i, j \in DOMAIN SideLists :
        i < j => ~Overlap(SideLists[i], SideLists[j])

\* The lists of one kind among themselves.
C30_SameKindDisjoint ==
    \A i, j \in DOMAIN SideLists :
        (i < j /\ SideLists[i].kind = SideLists[j].kind)
            => ~Overlap(SideLists[i], SideLists[j])

=============================================================================
